---- MODULE Spec2Model ----
(***************************************************************************)
(* Model of the Slamrock item-empowerment script                           *)
(* (src/game/AI/ScriptDevAI/scripts/world/slamrock_items.cpp).             *)
(*                                                                         *)
(* Two specifications share the module:                                    *)
(*   Spec      the item-use handler ItemUse_item_slamrock acting on one    *)
(*             player's target item, with the host's equip / unequip       *)
(*             between events;                                             *)
(*   SpecPick  the pure selection functions of the whitelist sampler,      *)
(*             applied to inputs drawn from bounded sets.                  *)
(***************************************************************************)
EXTENDS Integers, Sequences, FiniteSets

(***************************************************************************)
(* Bounds of the model.                                                    *)
(***************************************************************************)
MaxRows == 2

(***************************************************************************)
(* Program constants.                                                      *)
(***************************************************************************)
SLAMROCK_MARKER_ENCHANT_ID == 900000

SLAMROCK_MAX_MODIFIERS == 3

(***************************************************************************)
(* Strings.  A std::string is a sequence of character codes; std::map      *)
(* orders its keys with std::string's operator<, the lexicographic order   *)
(* of the codes.                                                           *)
(***************************************************************************)
RECURSIVE to_string(_)
to_string(n) ==
    IF n < 10 THEN << 48 + n >>
    ELSE Append(to_string(n \div 10), 48 + (n % 10))

RECURSIVE StrLess(_, _)
StrLess(a, b) ==
    IF b = << >> THEN FALSE
    ELSE IF a = << >> THEN TRUE
    ELSE IF Head(a) # Head(b) THEN Head(a) < Head(b)
    ELSE StrLess(Tail(a), Tail(b))

(***************************************************************************)
(* Whitelist rows (struct SlamrockWhitelistRow) and the input sets the     *)
(* model draws them from.  The key "2" collides with the effective key of  *)
(* a blank-key row of enchantment 2; "10" sorts before "2".                *)
(***************************************************************************)
KeyBlank == << >>

KeyTwo == << 50 >>

KeyTen == << 49, 48 >>

GroupKeys == { KeyBlank, KeyTwo }

EnchantIds == { 2, 10 }

Weights == { 0, 1, 3 }

Levels == { 0, 1 }

SlamrockWhitelistRow ==
    [ enchantId : EnchantIds, groupKey : GroupKeys, rank : { 1 },
      minIlvl : { 0, 1 }, weight : Weights ]

MaxOf(S) == CHOOSE m \in S : \A x \in S : x <= m

RECURSIVE SeqsUpTo(_, _)
SeqsUpTo(S, n) ==
    IF n = 0 THEN { << >> }
    ELSE LET shorter == SeqsUpTo(S, n - 1)
         IN  shorter \cup { Append(s, x) : s \in { t \in shorter : Len(t) = n - 1 }, x \in S }

GetEffectiveGroupKey(row) ==
    IF row.groupKey # << >> THEN row.groupKey ELSE to_string(row.enchantId)

\* weight == 0 || minIlvl > itemLevel  => the row is skipped
RowEligible_IgnoreTier(row, itemLevel) == row.weight # 0

RowEligible(row, itemLevel) ==
    ~ (row.weight = 0 \/ row.minIlvl > itemLevel)

IsExcluded(key, excludeGroups) ==
    \E i \in 1 .. Len(excludeGroups) : excludeGroups[i] = key

\* one insertion into std::map<std::string, uint32> groupWeights
GroupWeightsInsert_Sum(gw, key, w) ==
    IF key \notin DOMAIN gw
    THEN [ k \in DOMAIN gw \cup { key } |-> IF k = key THEN w ELSE gw[k] ]
    ELSE [ gw EXCEPT ![key] = @ + w ]

GroupWeightsInsert(gw, key, w) ==
    IF key \notin DOMAIN gw
    THEN [ k \in DOMAIN gw \cup { key } |-> IF k = key THEN w ELSE gw[k] ]
    ELSE IF w > gw[key] THEN [ gw EXCEPT ![key] = w ]
    ELSE gw

EmptyMap == [ k \in { } |-> 0 ]

RECURSIVE GroupWeightsUpTo(_, _, _, _)
GroupWeightsUpTo(pool, n, itemLevel, excludeGroups) ==
    IF n = 0 THEN EmptyMap
    ELSE LET gw  == GroupWeightsUpTo(pool, n - 1, itemLevel, excludeGroups)
             row == pool[n]
             key == GetEffectiveGroupKey(row)
         IN  IF ~ RowEligible(row, itemLevel) THEN gw
             ELSE IF IsExcluded(key, excludeGroups) THEN gw
             ELSE GroupWeightsInsert(gw, key, row.weight)

GroupWeights(pool, itemLevel, excludeGroups) ==
    GroupWeightsUpTo(pool, Len(pool), itemLevel, excludeGroups)

RECURSIVE MapOrder_Descending(_)
MapOrder_Descending(S) ==
    IF S = { } THEN << >>
    ELSE LET greatest == CHOOSE k \in S : \A o \in S \ { k } : StrLess(o, k)
         IN  << greatest >> \o MapOrder_Descending(S \ { greatest })

\* iteration order of a std::map keyed by std::string
RECURSIVE MapOrder(_)
MapOrder(S) ==
    IF S = { } THEN << >>
    ELSE LET least == CHOOSE k \in S : \A o \in S \ { k } : StrLess(k, o)
         IN  << least >> \o MapOrder(S \ { least })

RECURSIVE SumWeights(_, _)
SumWeights(gw, order) ==
    IF order = << >> THEN 0
    ELSE gw[Head(order)] + SumWeights(gw, Tail(order))

TotalWeight(gw) == SumWeights(gw, MapOrder(DOMAIN gw))

RECURSIVE WalkGroups(_, _, _, _)
WalkGroups(gw, order, roll, running) ==
    IF order = << >> THEN [ ok |-> FALSE, key |-> << >> ]
    ELSE LET now == running + gw[Head(order)]
         IN  IF roll <= now THEN [ ok |-> TRUE, key |-> Head(order) ]
             ELSE WalkGroups(gw, Tail(order), roll, now)

\* roll stands for the value urand(1, totalWeight) returns
PickWeightedGroupFromWhitelist(pool, itemLevel, excludeGroups, roll) ==
    LET gw == GroupWeights(pool, itemLevel, excludeGroups)
    IN  IF TotalWeight(gw) = 0 \/ DOMAIN gw = { }
        THEN [ ok |-> FALSE, key |-> << >> ]
        ELSE WalkGroups(gw, MapOrder(DOMAIN gw), roll, 0)

\* the values urand(1, totalWeight) can return for these inputs
GroupRolls(pool, itemLevel, excludeGroups) ==
    1 .. TotalWeight(GroupWeights(pool, itemLevel, excludeGroups))

(***************************************************************************)
(* Rank picker.  roll stands for the value urand(1, eligibleCount) returns.*)
(***************************************************************************)
RECURSIVE EligibleCountUpTo(_, _, _, _)
EligibleCountUpTo(pool, n, itemLevel, groupKey) ==
    IF n = 0 THEN 0
    ELSE EligibleCountUpTo(pool, n - 1, itemLevel, groupKey)
         + ( IF RowEligible(pool[n], itemLevel)
                /\ GetEffectiveGroupKey(pool[n]) = groupKey THEN 1 ELSE 0 )

EligibleCount_IgnoreGroup(pool, itemLevel, groupKey) ==
    Cardinality({ i \in 1 .. Len(pool) : RowEligible(pool[i], itemLevel) })

EligibleCount(pool, itemLevel, groupKey) ==
    EligibleCountUpTo(pool, Len(pool), itemLevel, groupKey)

RECURSIVE WalkRanks(_, _, _, _, _, _)
WalkRanks(pool, i, itemLevel, groupKey, roll, seen) ==
    IF i > Len(pool) THEN [ ok |-> FALSE, id |-> 0 ]
    ELSE IF ~ RowEligible(pool[i], itemLevel)
         THEN WalkRanks(pool, i + 1, itemLevel, groupKey, roll, seen)
    ELSE IF GetEffectiveGroupKey(pool[i]) # groupKey
         THEN WalkRanks(pool, i + 1, itemLevel, groupKey, roll, seen)
    ELSE IF seen + 1 >= roll THEN [ ok |-> TRUE, id |-> pool[i].enchantId ]
    ELSE WalkRanks(pool, i + 1, itemLevel, groupKey, roll, seen + 1)

PickRandomEligibleRankEnchantForGroup(pool, itemLevel, groupKey, roll) ==
    IF EligibleCount(pool, itemLevel, groupKey) = 0
    THEN [ ok |-> FALSE, id |-> 0 ]
    ELSE WalkRanks(pool, 1, itemLevel, groupKey, roll, 0)

RankRolls(pool, itemLevel, groupKey) ==
    1 .. EligibleCount(pool, itemLevel, groupKey)

VARIABLES pick, cache, item, live, rocks, ev, catalog, statics, call, threads

vars == << pick, cache, item, live, rocks, ev, catalog, statics, call, threads >>

mainVars == << cache, item, live, rocks, ev >>

\* the item storage, the function-local statics of the two selectors, the
\* selector call in progress, and the threads running handlers side by side
tierVars == << catalog, statics, call >>

(***************************************************************************)
(* The host: inventory positions, the item catalog, the target instance.   *)
(***************************************************************************)
EQUIPMENT_SLOT_END == 19

EQUIPMENT_SLOT_MAINHAND == 15

EQUIPMENT_SLOT_OFFHAND == 16

EQUIPMENT_SLOT_RANGED == 17

EQUIPMENT_SLOT_CHEST == 4

INVENTORY_SLOT_BAG_0 == 255

NULL_SLOT == 255

INVENTORY_SLOT_BAG_START == 19

INVENTORY_SLOT_ITEM_START == 23

\* bag 255 is the player itself; bags 19..22 are the equipped containers
IsEquipmentPos(bag, slot) ==
    bag = INVENTORY_SLOT_BAG_0 /\ slot < EQUIPMENT_SLOT_END

IsInventoryPos(bag, slot) ==
    \/ bag = INVENTORY_SLOT_BAG_0 /\ slot = NULL_SLOT
    \/ bag = INVENTORY_SLOT_BAG_0 /\ slot >= INVENTORY_SLOT_ITEM_START /\ slot < 39
    \/ bag >= INVENTORY_SLOT_BAG_START /\ bag < 23

PosMainhand == [ bag |-> INVENTORY_SLOT_BAG_0, slot |-> EQUIPMENT_SLOT_MAINHAND ]

PosChest == [ bag |-> INVENTORY_SLOT_BAG_0, slot |-> EQUIPMENT_SLOT_CHEST ]

PosBackpack == [ bag |-> INVENTORY_SLOT_BAG_0, slot |-> INVENTORY_SLOT_ITEM_START ]

\* slot 15 of the first equipped container: a bag slot numbered like MAINHAND
PosInBag == [ bag |-> INVENTORY_SLOT_BAG_START, slot |-> EQUIPMENT_SLOT_MAINHAND ]

BagPositions == { PosBackpack, PosInBag }

\* sItemStorage: the catalog the handler runs against
DefaultCatalog ==
    [ entry \in { 1, 2, 3, 4 } |->
        CASE entry = 1 -> [ ItemId |-> 1, Class |-> "WEAPON", SubClass |-> 7,
                            InventoryType |-> "INVTYPE_WEAPON", ItemLevel |-> 1 ]
          [] entry = 2 -> [ ItemId |-> 2, Class |-> "WEAPON", SubClass |-> 7,
                            InventoryType |-> "INVTYPE_WEAPON", ItemLevel |-> 0 ]
          [] entry = 3 -> [ ItemId |-> 3, Class |-> "ARMOR", SubClass |-> 1,
                            InventoryType |-> "INVTYPE_CHEST", ItemLevel |-> 1 ]
          [] entry = 4 -> [ ItemId |-> 4, Class |-> "CONTAINER", SubClass |-> 0,
                            InventoryType |-> "INVTYPE_BAG", ItemLevel |-> 1 ] ]

\* the entries sItemStorage.LookupEntry finds a prototype for
ItemEntries == DOMAIN catalog

GetItemPrototype(entry) == catalog[entry]

EquipPosOf(entry) ==
    IF GetItemPrototype(entry).Class = "WEAPON" THEN PosMainhand ELSE PosChest

EnchSlots == { "PERM", "PROP0", "PROP1", "PROP2", "PROP3" }

PERM_ENCHANTMENT_SLOT == "PERM"

SLAMROCK_MARKER_SLOT == "PROP0"

SLAMROCK_MODIFIER_SLOTS == << "PROP1", "PROP2", "PROP3" >>

SLAMROCK_ALL_PROP_SLOTS == << "PROP0", "PROP1", "PROP2", "PROP3" >>

\* a permanent enchantment put on the item by another system
ForeignPermEnchant == 1900

LiveIds == EnchantIds \cup { SLAMROCK_MARKER_ENCHANT_ID, ForeignPermEnchant }

NoEnchants == [ s \in EnchSlots |-> 0 ]

NewItem(entry, pos, rnd) ==
    [ entry |-> entry, bag |-> pos.bag, slot |-> pos.slot, rnd |-> rnd,
      ench |-> NoEnchants, alive |-> TRUE ]

\* Item::IsEquipped
IsEquipped(it) == it.bag = INVENTORY_SLOT_BAG_0 /\ it.slot < EQUIPMENT_SLOT_END

NoLive == [ s \in EnchSlots |-> [ e \in LiveIds |-> 0 ] ]

\* the host's _ApplyItemMods: every occupied enchantment slot of the item
ApplyItemMods(it, lv, delta) ==
    [ s \in EnchSlots |->
        [ e \in LiveIds |-> IF it.ench[s] = e THEN lv[s][e] + delta ELSE lv[s][e] ] ]

(***************************************************************************)
(* The handler works on a record m of the state it reads and writes:       *)
(* cache, item, live, rocks, and the calls it has made so far (log).       *)
(***************************************************************************)
Log(m, e) == [ m EXCEPT !.log = Append(@, e) ]

\* Player::ApplyEnchantment(item, slot, apply)
ApplyEnchantment(m, slot, apply) ==
    LET id == m.item.ench[slot]
        m1 == Log(m, << "ApplyEnchantment", slot, IF apply THEN "apply" ELSE "remove" >>)
    IN  IF ~ IsEquipped(m.item) \/ id = 0 THEN m1
        ELSE [ m1 EXCEPT !.live[slot][id] = @ + (IF apply THEN 1 ELSE -1) ]

\* Item::ClearEnchantment(slot)
ClearEnchantment(m, slot) ==
    [ Log(m, << "ClearEnchantment", slot >>) EXCEPT !.item.ench[slot] = 0 ]

\* Item::SetEnchantment(slot, id, 0, 0, caster)
SetEnchantment(m, slot, id) ==
    [ Log(m, << "SetEnchantment", slot >>) EXCEPT !.item.ench[slot] = id ]

\* Player::DestroyItem(bag, slot, true) at the target's position
DestroyItem(m) ==
    IF ~ m.item.alive THEN Log(m, << "DestroyItem", "nothing" >>)
    ELSE [ Log(m, << "DestroyItem", "target" >>) EXCEPT
             !.live = IF IsEquipped(m.item) THEN ApplyItemMods(m.item, @, -1) ELSE @,
             !.item.alive = FALSE,
             !.item.bag = INVENTORY_SLOT_BAG_0,
             !.item.slot = NULL_SLOT ]

InventoryResult == { "EQUIP_ERR_OK", "EQUIP_ERR_INVENTORY_FULL" }

\* what Item::GenerateItemRandomPropertyId can return for a new instance
RandomPropertyIds == { 0, 7 }

EquipCheckPassed_Always(msg) == TRUE

EquipCheckPassed(msg) == msg = "EQUIP_ERR_OK"

StoreCheckPassed(msg) == msg = "EQUIP_ERR_OK"

\* the equipped branch: CanEquipNewItem, DestroyItem, EquipNewItem
SwapEquipped(m, newEntry) ==
    UNION { LET m1 == Log(m, << "CanEquipNewItem", msg >>)
            IN  IF ~ EquipCheckPassed(msg)
                THEN { [ m |-> Log(m1, << "outFailReason", msg >>), result |-> FALSE ] }
                ELSE LET m2  == DestroyItem(m1)
                         pos == [ bag |-> m.item.bag, slot |-> m.item.slot ]
                     IN  { [ m |-> [ Log(m2, << "EquipNewItem", "item" >>) EXCEPT
                                       !.item = NewItem(newEntry, pos, 0) ],
                             result |-> TRUE ],
                           [ m |-> Log(m2, << "EquipNewItem", "nullptr" >>),
                             result |-> FALSE ] }
          : msg \in InventoryResult }

\* the bagged branch: CanStoreNewItem anywhere, DestroyItem, then the same
\* position if it can be stored there, else the location found before
SwapBagged(m, newEntry) ==
    UNION { LET m1 == Log(m, << "CanStoreNewItem", "any", msg >>)
            IN  IF ~ StoreCheckPassed(msg)
                THEN { [ m |-> Log(m1, << "outFailReason", msg >>), result |-> FALSE ] }
                ELSE LET m2   == DestroyItem(m1)
                         same == [ bag |-> m.item.bag, slot |-> m.item.slot ]
                     IN  UNION {
                           LET m3   == Log(m2, << "CanStoreNewItem", "same", msg2 >>)
                               dest == IF StoreCheckPassed(msg2) /\ same \in BagPositions
                                       THEN { same } ELSE BagPositions \ { same }
                           IN  { [ m |-> [ Log(m3, << "StoreNewItem", "item" >>) EXCEPT
                                             !.item = NewItem(newEntry, d, rnd) ],
                                   result |-> TRUE ]
                                 : d \in dest, rnd \in RandomPropertyIds }
                               \cup
                               { [ m |-> Log(m3, << "StoreNewItem", "nullptr" >>),
                                   result |-> FALSE ] }
                         : msg2 \in InventoryResult }
          : msg \in InventoryResult }

TryDowngradeItemInPlace(m, newEntry) ==
    IF newEntry = 0 THEN { [ m |-> m, result |-> FALSE ] }
    ELSE IF IsEquipmentPos(m.item.bag, m.item.slot)
    THEN SwapEquipped(Log(m, << "TryDowngradeItemInPlace", "equipped" >>), newEntry)
    ELSE IF IsInventoryPos(m.item.bag, m.item.slot)
    THEN SwapBagged(Log(m, << "TryDowngradeItemInPlace", "bagged" >>), newEntry)
    ELSE { [ m |-> Log(m, << "TryDowngradeItemInPlace", "nowhere" >>), result |-> FALSE ] }

(***************************************************************************)
(* Tier indexes and the swap selectors.                                    *)
(***************************************************************************)
GetMaxEntry == MaxOf(ItemEntries) + 1

InsertByLevel_Unsorted(vec, pair) == Append(vec, pair)

RECURSIVE InsertByLevel(_, _)
InsertByLevel(vec, pair) ==
    IF vec = << >> THEN << pair >>
    ELSE IF pair[1] < Head(vec)[1] THEN << pair >> \o vec
    ELSE << Head(vec) >> \o InsertByLevel(Tail(vec), pair)

Indexable_WithBags(entry) == entry \in ItemEntries

Indexable(entry) ==
    /\ entry \in ItemEntries
    /\ GetItemPrototype(entry).InventoryType \notin { "INVTYPE_NON_EQUIP", "INVTYPE_BAG" }

ItemTypeKey(proto) == << proto.Class, proto.SubClass, proto.InventoryType >>

\* byType[key] after the build: (ItemLevel, entry) pairs sorted by ItemLevel
RECURSIVE ByTypeUpTo(_, _)
ByTypeUpTo(n, key) ==
    IF n = 0 THEN << >>
    ELSE LET vec == ByTypeUpTo(n - 1, key)
         IN  IF ~ Indexable(n) THEN vec
             ELSE IF ItemTypeKey(GetItemPrototype(n)) # key THEN vec
             ELSE InsertByLevel(vec, << GetItemPrototype(n).ItemLevel, n >>)

byType(key) == ByTypeUpTo(GetMaxEntry - 1, key)

\* byClass[class] after the build
RECURSIVE ByClassUpTo(_, _)
ByClassUpTo(n, class) ==
    IF n = 0 THEN << >>
    ELSE LET vec == ByClassUpTo(n - 1, class)
         IN  IF ~ Indexable(n) THEN vec
             ELSE IF GetItemPrototype(n).Class # class THEN vec
             ELSE InsertByLevel(vec, << GetItemPrototype(n).ItemLevel, n >>)

byClass(class) == ByClassUpTo(GetMaxEntry - 1, class)

RECURSIVE ScanLower(_, _)
ScanLower(vec, proto) ==
    IF vec = << >> THEN << >>
    ELSE IF Head(vec)[1] >= proto.ItemLevel THEN << >>
    ELSE IF Head(vec)[2] = proto.ItemId THEN ScanLower(Tail(vec), proto)
    ELSE << Head(vec)[2] >> \o ScanLower(Tail(vec), proto)

ScanRange_NoUpperBound(vec, proto, maxIlvl) ==
    LET sel == SelectSeq(vec, LAMBDA p : p[1] >= proto.ItemLevel /\ p[2] # proto.ItemId)
    IN  [ i \in 1 .. Len(sel) |-> sel[i][2] ]

RECURSIVE ScanRange(_, _, _)
ScanRange(vec, proto, maxIlvl) ==
    IF vec = << >> THEN << >>
    ELSE IF Head(vec)[1] < proto.ItemLevel THEN ScanRange(Tail(vec), proto, maxIlvl)
    ELSE IF Head(vec)[1] > maxIlvl THEN << >>
    ELSE IF Head(vec)[2] = proto.ItemId THEN ScanRange(Tail(vec), proto, maxIlvl)
    ELSE << Head(vec)[2] >> \o ScanRange(Tail(vec), proto, maxIlvl)

DowngradeReachesIndex_Always(proto) == TRUE

\* if (!targetProto || targetProto->ItemLevel == 0) return 0; comes before
\* the statics are touched
DowngradeReachesIndex(proto) == proto.ItemLevel # 0

\* draw stands for the value urand(0, candidates.size() - 1) returns
PickDowngradeEntry(proto, draw) ==
    IF proto.ItemLevel = 0 THEN 0
    ELSE LET candidates == ScanLower(byType(ItemTypeKey(proto)), proto)
         IN  IF candidates = << >> THEN 0 ELSE candidates[draw + 1]

DowngradePicks(proto) ==
    LET n == IF proto.ItemLevel = 0 THEN 0
             ELSE Len(ScanLower(byType(ItemTypeKey(proto)), proto))
    IN  { PickDowngradeEntry(proto, d) : d \in 0 .. (IF n = 0 THEN 0 ELSE n - 1) }

SLAMROCK_UPGRADE_MAX_ILVL_DELTA == 5

PickUpgradeEntrySameClass(proto, maxIlvlDelta, draw) ==
    LET candidates == ScanRange(byClass(proto.Class), proto, proto.ItemLevel + maxIlvlDelta)
    IN  IF candidates = << >> THEN 0 ELSE candidates[draw + 1]

UpgradePicks(proto) ==
    LET n == Len(ScanRange(byClass(proto.Class), proto,
                           proto.ItemLevel + SLAMROCK_UPGRADE_MAX_ILVL_DELTA))
    IN  { PickUpgradeEntrySameClass(proto, SLAMROCK_UPGRADE_MAX_ILVL_DELTA, d)
          : d \in 0 .. (IF n = 0 THEN 0 ELSE n - 1) }

(***************************************************************************)
(* The function-local statics of the two selectors: the flag initialized   *)
(* and the index, of PickDowngradeEntry (byType) and of                    *)
(* PickUpgradeEntrySameClass (byClass).  A key the map does not hold is    *)
(* the empty vector: both make the selector return 0.                      *)
(***************************************************************************)
ItemTypes ==
    { << "WEAPON", 7, "INVTYPE_WEAPON" >>, << "WEAPON", 7, "INVTYPE_2HWEAPON" >>,
      << "ARMOR", 1, "INVTYPE_CHEST" >>, << "CONTAINER", 0, "INVTYPE_BAG" >> }

ItemClasses == { t[1] : t \in ItemTypes }

NoStatics ==
    [ byTypeInitialized  |-> FALSE, byTypeMap  |-> [ k \in ItemTypes |-> << >> ],
      byClassInitialized |-> FALSE, byClassMap |-> [ c \in ItemClasses |-> << >> ] ]

\* if (!initialized) { fill; sort; initialized = true; } run by one caller alone
BuildByType(st) ==
    IF st.byTypeInitialized THEN st
    ELSE [ st EXCEPT !.byTypeInitialized = TRUE,
                     !.byTypeMap = [ k \in ItemTypes |-> byType(k) ] ]

BuildByClass(st) ==
    IF st.byClassInitialized THEN st
    ELSE [ st EXCEPT !.byClassInitialized = TRUE,
                     !.byClassMap = [ c \in ItemClasses |-> byClass(c) ] ]

(***************************************************************************)
(* The whitelist cache and its load.                                       *)
(***************************************************************************)
MaxDbRows == 1

DbRow(id, key, rank, minIlvl, weight, weapon, armor) ==
    [ enchantId |-> id, groupKey |-> key, rank |-> rank, minIlvl |-> minIlvl,
      weight |-> weight, can_apply_to_weapon |-> weapon, can_apply_to_armor |-> armor ]

\* the rows of slamrock_enchant_whitelist with enabled = 1 that the model
\* draws the table from: a tier-gated weapon row with a group key, and a
\* row for both types that names the marker id and has a blank group key
DbRows ==
    { DbRow(10, KeyTwo, 2, 1, 3, TRUE, FALSE),
      DbRow(SLAMROCK_MARKER_ENCHANT_ID, KeyBlank, 1, 0, 1, TRUE, TRUE) }

DbTables == SeqsUpTo(DbRows, MaxDbRows)

RowOf(r) ==
    [ enchantId |-> r.enchantId, groupKey |-> r.groupKey, rank |-> r.rank,
      minIlvl |-> r.minIlvl, weight |-> r.weight ]

RECURSIVE loadSide(_, _)
loadSide(table, isWeapon) ==
    IF table = << >> THEN << >>
    ELSE LET r == Head(table)
         IN  IF (IF isWeapon THEN r.can_apply_to_weapon ELSE r.can_apply_to_armor)
             THEN << RowOf(r) >> \o loadSide(Tail(table), isWeapon)
             ELSE loadSide(Tail(table), isWeapon)

EmptyCache ==
    [ attemptedLoad |-> FALSE, loaded |-> FALSE, weapon |-> << >>, armor |-> << >> ]

LoadWhitelistFromDB(c, table) ==
    [ c EXCEPT !.weapon = loadSide(table, TRUE),
               !.armor  = loadSide(table, FALSE),
               !.loaded = TRUE ]

(***************************************************************************)
(* ClearSlamrockEnchants and the application of marker and modifiers.      *)
(***************************************************************************)
RemoveLive_Skip(m, slots) == m

ClearSlots_Skip(m, slots) == m

RECURSIVE RemoveLive(_, _)
RemoveLive(m, slots) ==
    IF slots = << >> THEN m
    ELSE RemoveLive(ApplyEnchantment(m, Head(slots), FALSE), Tail(slots))

ClearSlots_FirstOnly(m, slots) ==
    IF slots = << >> THEN m ELSE ClearEnchantment(m, Head(slots))

RECURSIVE ClearSlots(_, _)
ClearSlots(m, slots) ==
    IF slots = << >> THEN m
    ELSE ClearSlots(ClearEnchantment(m, Head(slots)), Tail(slots))

UpdateDamage(m) ==
    IF m.item.slot = EQUIPMENT_SLOT_MAINHAND
    THEN Log(m, << "UpdateDamagePhysical", "BASE_ATTACK" >>)
    ELSE IF m.item.slot = EQUIPMENT_SLOT_OFFHAND
    THEN Log(m, << "UpdateDamagePhysical", "OFF_ATTACK" >>)
    ELSE IF m.item.slot = EQUIPMENT_SLOT_RANGED
    THEN Log(m, << "UpdateDamagePhysical", "RANGED_ATTACK" >>)
    ELSE m

ClearKeepsPerm_Never(id) == FALSE

\* the permanent slot is cleared only when it holds the marker
ClearKeepsPerm(id) == id # SLAMROCK_MARKER_ENCHANT_ID

ClearSlamrockEnchants(m) ==
    LET m1 == IF m.item.slot < EQUIPMENT_SLOT_END
              THEN UpdateDamage(RemoveLive(m, SLAMROCK_ALL_PROP_SLOTS))
              ELSE m
        m2 == ClearSlots(m1, SLAMROCK_ALL_PROP_SLOTS)
        m3 == IF ~ ClearKeepsPerm(m2.item.ench[PERM_ENCHANTMENT_SLOT])
              THEN ClearEnchantment(m2, PERM_ENCHANTMENT_SLOT)
              ELSE m2
    IN  IF m3.item.slot < EQUIPMENT_SLOT_END
        THEN Log(m3, << "SetVisibleItemSlot" >>)
        ELSE m3

PermIsFree_Always(id) == TRUE

PermIsFree(id) == id = 0

\* marker into the permanent slot when that is free, else into PROP0
PlaceMarker(m) ==
    IF PermIsFree(m.item.ench[PERM_ENCHANTMENT_SLOT])
    THEN SetEnchantment(m, PERM_ENCHANTMENT_SLOT, SLAMROCK_MARKER_ENCHANT_ID)
    ELSE SetEnchantment(m, SLAMROCK_MARKER_SLOT, SLAMROCK_MARKER_ENCHANT_ID)

RECURSIVE PlaceModifiers(_, _, _)
PlaceModifiers(m, rolled, i) ==
    IF ~ (i < Len(rolled) /\ i < SLAMROCK_MAX_MODIFIERS) THEN m
    ELSE PlaceModifiers(SetEnchantment(m, SLAMROCK_MODIFIER_SLOTS[i + 1], rolled[i + 1]),
                        rolled, i + 1)

RECURSIVE ApplyModifiers(_, _, _)
ApplyModifiers(m, rolled, i) ==
    IF ~ (i < Len(rolled) /\ i < SLAMROCK_MAX_MODIFIERS) THEN m
    ELSE ApplyModifiers(ApplyEnchantment(m, SLAMROCK_MODIFIER_SLOTS[i + 1], TRUE),
                        rolled, i + 1)

ApplyRolled(m, rolled) ==
    LET m1 == PlaceModifiers(PlaceMarker(m), rolled, 0)
        m2 == Log(m1, << "SetState", "ITEM_CHANGED" >>)
    IN  IF m2.item.slot < EQUIPMENT_SLOT_END
        THEN Log(UpdateDamage(ApplyModifiers(
                    ApplyEnchantment(m2, SLAMROCK_MARKER_SLOT, TRUE), rolled, 0)),
                 << "SetVisibleItemSlot" >>)
        ELSE m2

(***************************************************************************)
(* ItemUse_item_slamrock.  Every stage maps a record m to the set of the   *)
(* records its draws and the host's answers can produce.                   *)
(***************************************************************************)
Finish(m, outcome) == [ m EXCEPT !.outcome = outcome ]

\* pPlayer->DestroyItemCount(pItem->GetEntry(), 1, true)
ConsumeSlamrock(m) ==
    [ Log(m, << "DestroyItemCount", "slamrock" >>) EXCEPT !.rocks = @ - 1 ]

\* the stages after a return are skipped
Returned(S) == { m \in S : m.outcome # "running" }

StillRunning(S) == { m \in S : m.outcome = "running" }

SwapWith_ConsumeOnFailure(m, newEntry, outcome) ==
    IF newEntry = 0 THEN { m }
    ELSE { IF r.result THEN Finish(ConsumeSlamrock(r.m), outcome) ELSE ConsumeSlamrock(r.m)
           : r \in TryDowngradeItemInPlace(m, newEntry) }

SwapWith(m, newEntry, outcome) ==
    IF newEntry = 0 THEN { m }
    ELSE { IF r.result THEN Finish(ConsumeSlamrock(r.m), outcome) ELSE r.m
           : r \in TryDowngradeItemInPlace(m, newEntry) }

\* urand(1, 100) <= SLAMROCK_UPGRADE_CHANCE_PCT
UpgradeStage(m) ==
    { Log(m, << "upgrade roll", "miss" >>) }
    \cup UNION { SwapWith(Log(m, << "upgrade roll", "hit" >>), e, "upgraded")
                 : e \in UpgradePicks(GetItemPrototype(m.item.entry)) }

\* urand(1, 100) <= SLAMROCK_DOWNGRADE_CHANCE_PCT
DowngradeStage(m) ==
    { Log(m, << "downgrade roll", "miss" >>) }
    \cup UNION { SwapWith(Log(m, << "downgrade roll", "hit" >>), e, "downgraded")
                 : e \in DowngradePicks(GetItemPrototype(m.item.entry)) }

LoadStage(m) ==
    IF ~ m.cache.loaded /\ ~ m.cache.attemptedLoad
    THEN { [ Log(m, << "LoadWhitelistFromDB" >>) EXCEPT
               !.cache = LoadWhitelistFromDB([ @ EXCEPT !.attemptedLoad = TRUE ], t) ]
           : t \in DbTables }
    ELSE { m }

IsWeaponTarget(it) == GetItemPrototype(it.entry).Class = "WEAPON"

PoolFor_OtherType(m) == IF IsWeaponTarget(m.item) THEN m.cache.armor ELSE m.cache.weapon

PoolFor(m) == IF IsWeaponTarget(m.item) THEN m.cache.weapon ELSE m.cache.armor

\* static std::vector<std::string> noExclusions, never filled
noExclusions == << >>

\* one pass of the loop body: every result the two draws of one iteration
\* can give.  The loop never changes pool, itemLevel or noExclusions, so
\* every iteration draws from this same set.
RollOnce(pool, itemLevel, excludeGroups) ==
    IF GroupRolls(pool, itemLevel, excludeGroups) = { }
    THEN { [ ok |-> FALSE, id |-> 0, key |-> << >> ] }
    ELSE UNION {
           LET g == PickWeightedGroupFromWhitelist(pool, itemLevel, excludeGroups, r)
           IN  IF ~ g.ok \/ RankRolls(pool, itemLevel, g.key) = { }
               THEN { [ ok |-> FALSE, id |-> 0, key |-> << >> ] }
               ELSE { LET p == PickRandomEligibleRankEnchantForGroup(pool, itemLevel, g.key, q)
                      IN  [ ok |-> p.ok, id |-> p.id, key |-> g.key ]
                      : q \in RankRolls(pool, itemLevel, g.key) }
           : r \in GroupRolls(pool, itemLevel, excludeGroups) }

\* the while loop over rolled.size() < modifierCount; a failed pick breaks.
\* picks holds, for every entry pushed to rolled, its id and the group key
\* the sampler returned for it.
RECURSIVE RollLoop_OneMore(_, _, _)
RollLoop_OneMore(once, modifierCount, picks) ==
    IF ~ (Len(picks) <= modifierCount) THEN { picks }
    ELSE UNION { IF ~ p.ok THEN { picks }
                 ELSE RollLoop_OneMore(once, modifierCount,
                                       Append(picks, [ id |-> p.id, key |-> p.key ]))
                 : p \in once }

RECURSIVE RollLoop(_, _, _)
RollLoop(once, modifierCount, picks) ==
    IF ~ (Len(picks) < modifierCount) THEN { picks }
    ELSE UNION { IF ~ p.ok THEN { picks }
                 ELSE RollLoop(once, modifierCount, Append(picks, [ id |-> p.id, key |-> p.key ]))
                 : p \in once }

IdsOf(picks) == [ i \in 1 .. Len(picks) |-> picks[i].id ]

KeysOf(picks) == [ i \in 1 .. Len(picks) |-> picks[i].key ]

EligibleGroups(pool, itemLevel) ==
    { GetEffectiveGroupKey(pool[i]) :
        i \in { j \in 1 .. Len(pool) : RowEligible(pool[j], itemLevel) } }

Empower(m, picks) ==
    LET rolled == IdsOf(picks)
    IN  IF rolled = << >>
        THEN Finish(Log(m, << "SendNotification", "no eligible enchantments" >>),
                    "roll_failed")
        ELSE Finish(ConsumeSlamrock(
                      ApplyRolled(ClearSlamrockEnchants(
                          [ m EXCEPT !.rolled = rolled, !.groups = KeysOf(picks) ]), rolled)),
                    "empowered")

ModifierStage_ClearFirst(m) ==
    LET c         == ClearSlamrockEnchants(m)
        pool      == PoolFor(c)
        itemLevel == GetItemPrototype(c.item.entry).ItemLevel
    IN  IF pool = << >>
        THEN { Finish(Log(c, << "SendNotification", "whitelist empty" >>), "whitelist_empty") }
        ELSE IF EligibleGroups(pool, itemLevel) = { }
        THEN { Finish(Log(c, << "SendNotification", "no eligible enchantments" >>),
                      "no_eligible") }
        ELSE LET once == RollOnce(pool, itemLevel, noExclusions)
             IN  UNION { { Empower(m, picks) : picks \in RollLoop(once, modifierCount, << >>) }
                         : modifierCount \in 1 .. SLAMROCK_MAX_MODIFIERS }

ModifierStage(m) ==
    LET pool      == PoolFor(m)
        itemLevel == GetItemPrototype(m.item.entry).ItemLevel
    IN  IF pool = << >>
        THEN { Finish(Log(m, << "SendNotification", "whitelist empty" >>), "whitelist_empty") }
        ELSE IF EligibleGroups(pool, itemLevel) = { }
        THEN { Finish(Log(m, << "SendNotification", "no eligible enchantments" >>),
                      "no_eligible") }
        ELSE LET once == RollOnce(pool, itemLevel, noExclusions)
             IN  UNION { { Empower(m, picks) : picks \in RollLoop(once, modifierCount, << >>) }
                         : modifierCount \in 1 .. SLAMROCK_MAX_MODIFIERS }

\* what targets.getItemTarget() can hand to the handler
Targets == { "none", "item", "container", "foreign" }

IsReasonableGearTarget(proto) ==
    proto.InventoryType # "INVTYPE_NON_EQUIP" /\ proto.InventoryType # "INVTYPE_BAG"

TargetRejected_IgnoreRandomProperty(tgt, it) ==
    \/ tgt = "none"
    \/ tgt = "container" /\ ~ IsReasonableGearTarget(GetItemPrototype(4))
    \/ tgt = "item" /\ ~ IsReasonableGearTarget(GetItemPrototype(it.entry))
    \/ tgt = "foreign"

TargetRejected(tgt, it) ==
    \/ tgt = "none"
    \/ tgt = "container" /\ ~ IsReasonableGearTarget(GetItemPrototype(4))
    \/ tgt = "item" /\ ~ IsReasonableGearTarget(GetItemPrototype(it.entry))
    \/ tgt = "foreign"
    \/ tgt = "item" /\ it.rnd # 0

ItemUseResults(m, tgt) ==
    IF TargetRejected(tgt, m.item)
    THEN { Finish(Log(m, << "SendCastResult", "SPELL_FAILED_BAD_TARGETS" >>), "rejected") }
    ELSE LET s1 == UpgradeStage(m)
             s2 == Returned(s1) \cup UNION { DowngradeStage(x) : x \in StillRunning(s1) }
             s3 == Returned(s2) \cup UNION { LoadStage(x) : x \in StillRunning(s2) }
         IN  Returned(s3) \cup UNION { ModifierStage(x) : x \in StillRunning(s3) }

(***************************************************************************)
(* Spec: one player, one target item, a stack of Slamrocks.                *)
(***************************************************************************)
MaxRocks == 2

NoEvent ==
    [ target |-> "none", outcome |-> "idle", log |-> << >>, rolled |-> << >>,
      groups |-> << >> ]

IdlePick ==
    [ pool |-> << >>, itemLevel |-> 0, excludeGroups |-> << >>,
      out |-> [ fn |-> "none", ok |-> FALSE, key |-> << >>, roll |-> 0 ] ]

InitItems ==
    { [ NewItem(e, pos, 0) EXCEPT !.ench["PERM"] = perm ]
      : e \in { 1, 3 }, pos \in { PosInBag, PosMainhand, PosChest },
        perm \in { 0, ForeignPermEnchant } }

NoCall == [ fn |-> "none", target |-> 0, out |-> 0 ]

NoThreads == << >>

\* the handler's model starts with the tier indexes built by earlier uses;
\* their lazy build is the subject of SpecTier and SpecBuild
Init ==
    /\ pick = IdlePick
    /\ catalog = DefaultCatalog
    /\ statics = BuildByClass(BuildByType(NoStatics))
    /\ call = NoCall
    /\ threads = NoThreads
    /\ cache = EmptyCache
    /\ item \in { it \in InitItems :
                    IsEquipped(it) => EquipPosOf(it.entry) = [ bag |-> it.bag, slot |-> it.slot ] }
    /\ live = IF IsEquipped(item) THEN ApplyItemMods(item, NoLive, 1) ELSE NoLive
    /\ rocks = MaxRocks
    /\ ev = NoEvent

ItemUse ==
    /\ rocks >= 1
    /\ \E tgt \in Targets :
          /\ tgt = "item" => item.alive
          /\ \E r \in ItemUseResults(
                        [ cache |-> cache, item |-> item, live |-> live, rocks |-> rocks,
                          log |-> << >>, outcome |-> "running", rolled |-> << >>,
                          groups |-> << >> ], tgt) :
                /\ cache' = r.cache
                /\ item' = r.item
                /\ live' = r.live
                /\ rocks' = r.rocks
                /\ ev' = [ target |-> tgt, outcome |-> r.outcome, log |-> r.log,
                           rolled |-> r.rolled, groups |-> r.groups ]
    /\ UNCHANGED << pick, tierVars, threads >>

\* the host equips the target: its enchantments become live
HostEquip ==
    /\ item.alive /\ ~ IsEquipped(item)
    /\ item' = [ item EXCEPT !.bag = EquipPosOf(item.entry).bag,
                             !.slot = EquipPosOf(item.entry).slot ]
    /\ live' = ApplyItemMods(item, live, 1)
    /\ ev' = [ NoEvent EXCEPT !.outcome = "equipped" ]
    /\ UNCHANGED << pick, cache, rocks, tierVars, threads >>

\* the host moves the equipped target into a bag
HostUnequip ==
    /\ item.alive /\ IsEquipped(item)
    /\ \E pos \in BagPositions :
          item' = [ item EXCEPT !.bag = pos.bag, !.slot = pos.slot ]
    /\ live' = ApplyItemMods(item, live, -1)
    /\ ev' = [ NoEvent EXCEPT !.outcome = "unequipped" ]
    /\ UNCHANGED << pick, cache, rocks, tierVars, threads >>

Next == ItemUse \/ HostEquip \/ HostUnequip

Spec == Init /\ [][Next]_vars

(***************************************************************************)
(* SpecPick: the sampler applied to drawn inputs.                          *)
(***************************************************************************)
ExcludeLists == { << >>, << KeyTen >>, << KeyTwo >> }

NoPick == [ fn |-> "none", ok |-> FALSE, key |-> << >>, roll |-> 0 ]

InitPick ==
    /\ catalog = DefaultCatalog
    /\ statics = NoStatics
    /\ call = NoCall
    /\ threads = NoThreads
    /\ cache = EmptyCache
    /\ item = NewItem(1, PosBackpack, 0)
    /\ live = NoLive
    /\ rocks = 0
    /\ ev = NoEvent
    /\ pick \in [ pool : SeqsUpTo(SlamrockWhitelistRow, MaxRows), itemLevel : Levels,
               excludeGroups : ExcludeLists, out : { NoPick } ]

CallPickWeightedGroup ==
    /\ pick.out.fn = "none"
    /\ \/ /\ GroupRolls(pick.pool, pick.itemLevel, pick.excludeGroups) = { }
          /\ LET r == PickWeightedGroupFromWhitelist(pick.pool, pick.itemLevel,
                                                     pick.excludeGroups, 0)
             IN  pick' = [ pick EXCEPT !.out = [ fn |-> "group", ok |-> r.ok,
                                                 key |-> r.key, roll |-> 0 ] ]
       \/ \E roll \in GroupRolls(pick.pool, pick.itemLevel, pick.excludeGroups) :
             LET r == PickWeightedGroupFromWhitelist(pick.pool, pick.itemLevel,
                                                     pick.excludeGroups, roll)
             IN  pick' = [ pick EXCEPT !.out = [ fn |-> "group", ok |-> r.ok,
                                                 key |-> r.key, roll |-> roll ] ]
    /\ UNCHANGED << mainVars, tierVars, threads >>

NextPick == CallPickWeightedGroup

SpecPick == InitPick /\ [][NextPick]_vars

(***************************************************************************)
(* SpecTier: the two selectors called on one target, from their first use  *)
(* on, any number of times in any order, over drawn catalogs.              *)
(***************************************************************************)
MaxCatalog == 3

TierLevels == { 0, 1, 7 }

ItemPrototypes(entry) ==
    { [ ItemId |-> entry, Class |-> t[1], SubClass |-> t[2], InventoryType |-> t[3],
        ItemLevel |-> l ] : t \in ItemTypes, l \in TierLevels }

\* every storage with prototypes for some of the entries 1..n
RECURSIVE CatalogsUpTo(_)
CatalogsUpTo(n) ==
    IF n = 0 THEN { [ e \in { } |-> 0 ] }
    ELSE LET rest == CatalogsUpTo(n - 1)
         IN  rest \cup { [ e \in DOMAIN f \cup { n } |-> IF e = n THEN p ELSE f[e] ]
                         : f \in rest, p \in ItemPrototypes(n) }

Catalogs == { f \in CatalogsUpTo(MaxCatalog) : DOMAIN f # { } }

InitTier ==
    /\ pick = IdlePick
    /\ threads = NoThreads
    /\ cache = EmptyCache
    /\ item = NewItem(1, PosBackpack, 0)
    /\ live = NoLive
    /\ rocks = 0
    /\ ev = NoEvent
    /\ catalog \in Catalogs
    /\ statics = NoStatics
    /\ call \in [ fn : { "none" }, target : DOMAIN catalog, out : { 0 } ]

CallPickDowngradeEntry ==
    /\ LET proto == GetItemPrototype(call.target)
       IN  /\ \E e \in DowngradePicks(proto) :
                 call' = [ call EXCEPT !.fn = "downgrade", !.out = e ]
           /\ statics' = IF DowngradeReachesIndex(proto) THEN BuildByType(statics)
                          ELSE statics
    /\ UNCHANGED << pick, mainVars, catalog, threads >>

CallPickUpgradeEntrySameClass ==
    /\ LET proto == GetItemPrototype(call.target)
       IN  \E e \in UpgradePicks(proto) :
              call' = [ call EXCEPT !.fn = "upgrade", !.out = e ]
    /\ statics' = BuildByClass(statics)
    /\ UNCHANGED << pick, mainVars, catalog, threads >>

NextTier == CallPickDowngradeEntry \/ CallPickUpgradeEntrySameClass

SpecTier == InitTier /\ [][NextTier]_vars

(***************************************************************************)
(* SpecRank: the rank picker applied to drawn inputs.                      *)
(***************************************************************************)
RankKeys == { KeyTwo, KeyTen }

NoRank == [ fn |-> "none", ok |-> FALSE, id |-> 0, roll |-> 0 ]

InitRank ==
    /\ catalog = DefaultCatalog
    /\ statics = NoStatics
    /\ call = NoCall
    /\ threads = NoThreads
    /\ cache = EmptyCache
    /\ item = NewItem(1, PosBackpack, 0)
    /\ live = NoLive
    /\ rocks = 0
    /\ ev = NoEvent
    /\ pick \in [ pool : SeqsUpTo(SlamrockWhitelistRow, MaxRows), itemLevel : Levels,
                  groupKey : RankKeys, out : { NoRank } ]

CallPickRandomEligibleRank ==
    /\ pick.out.fn = "none"
    /\ \/ /\ RankRolls(pick.pool, pick.itemLevel, pick.groupKey) = { }
          /\ LET r == PickRandomEligibleRankEnchantForGroup(pick.pool, pick.itemLevel,
                                                            pick.groupKey, 0)
             IN  pick' = [ pick EXCEPT !.out = [ fn |-> "rank", ok |-> r.ok,
                                                 id |-> r.id, roll |-> 0 ] ]
       \/ \E roll \in RankRolls(pick.pool, pick.itemLevel, pick.groupKey) :
             LET r == PickRandomEligibleRankEnchantForGroup(pick.pool, pick.itemLevel,
                                                           pick.groupKey, roll)
             IN  pick' = [ pick EXCEPT !.out = [ fn |-> "rank", ok |-> r.ok,
                                                 id |-> r.id, roll |-> roll ] ]
    /\ UNCHANGED << mainVars, tierVars, threads >>

NextRank == CallPickRandomEligibleRank

SpecRank == InitRank /\ [][NextRank]_vars

(***************************************************************************)
(* SpecRoll: the handler from the choice of the pool on (line 804 to the   *)
(* return), called once on a loaded cache whose pool for the target's type *)
(* is drawn from the rows; the other type's pool holds one eligible row    *)
(* for each enchantment id.                                                *)
(***************************************************************************)
OtherPool ==
    << [ enchantId |-> 2, groupKey |-> KeyBlank, rank |-> 1, minIlvl |-> 0, weight |-> 1 ],
       [ enchantId |-> 10, groupKey |-> KeyBlank, rank |-> 1, minIlvl |-> 0, weight |-> 1 ] >>

LoadedCache(entry, pool) ==
    IF GetItemPrototype(entry).Class = "WEAPON"
    THEN [ attemptedLoad |-> TRUE, loaded |-> TRUE, weapon |-> pool, armor |-> OtherPool ]
    ELSE [ attemptedLoad |-> TRUE, loaded |-> TRUE, weapon |-> OtherPool, armor |-> pool ]

InitRoll ==
    /\ pick = IdlePick
    /\ catalog = DefaultCatalog
    /\ statics = NoStatics
    /\ call = NoCall
    /\ threads = NoThreads
    /\ live = NoLive
    /\ rocks = 1
    /\ ev = NoEvent
    /\ \E entry \in { 1, 2, 3 }, pool \in SeqsUpTo(SlamrockWhitelistRow, MaxRows) :
          /\ item = NewItem(entry, PosInBag, 0)
          /\ cache = LoadedCache(entry, pool)

CallModifierStage ==
    /\ ev.outcome = "idle"
    /\ \E r \in ModifierStage(
                  [ cache |-> cache, item |-> item, live |-> live, rocks |-> rocks,
                    log |-> << >>, outcome |-> "running", rolled |-> << >>,
                    groups |-> << >> ]) :
          /\ cache' = r.cache
          /\ item' = r.item
          /\ live' = r.live
          /\ rocks' = r.rocks
          /\ ev' = [ target |-> "item", outcome |-> r.outcome, log |-> r.log,
                     rolled |-> r.rolled, groups |-> r.groups ]
    /\ UNCHANGED << pick, tierVars, threads >>

NextRoll == CallModifierStage

SpecRoll == InitRoll /\ [][NextRoll]_vars

(***************************************************************************)
(* SpecLoad: item-use events of several players from the lazy load to the  *)
(* choice of the pool, one statement at a time.  The cache is the one      *)
(* function-local static of GetWhitelistCache; nothing in the file orders  *)
(* the accesses of two events to it.                                       *)
(***************************************************************************)
NumThreads == 2

\* pc: the statement the event is at; rows: what is left of its query
\* result; seen: the pair of sequences it found in the cache at line 807
LoadThread(table) ==
    [ pc |-> "check", table |-> table, rows |-> << >>,
      seen |-> [ weapon |-> << >>, armor |-> << >> ] ]

InitLoad ==
    /\ pick = IdlePick
    /\ catalog = DefaultCatalog
    /\ statics = NoStatics
    /\ call = NoCall
    /\ item = NewItem(1, PosBackpack, 0)
    /\ live = NoLive
    /\ rocks = 0
    /\ ev = NoEvent
    /\ cache = EmptyCache
    /\ \E table \in DbTables : threads = [ i \in 1 .. NumThreads |-> LoadThread(table) ]

\* if (!cache.loaded && !cache.attemptedLoad)
loadRest == << pick, item, live, rocks, ev, tierVars >>

LoadCheck(i) ==
    /\ threads[i].pc = "check"
    /\ threads' = [ threads EXCEPT ![i].pc =
                       IF ~ cache.loaded /\ ~ cache.attemptedLoad THEN "mark" ELSE "read" ]
    /\ UNCHANGED << cache, loadRest >>

\* cache.attemptedLoad = true;
LoadMark(i) ==
    /\ threads[i].pc = "mark"
    /\ cache' = [ cache EXCEPT !.attemptedLoad = TRUE ]
    /\ threads' = [ threads EXCEPT ![i].pc = "clear weapon" ]
    /\ UNCHANGED loadRest

\* cache.weapon.clear();
LoadClearWeapon(i) ==
    /\ threads[i].pc = "clear weapon"
    /\ cache' = [ cache EXCEPT !.weapon = << >> ]
    /\ threads' = [ threads EXCEPT ![i].pc = "clear armor" ]
    /\ UNCHANGED loadRest

\* cache.armor.clear();
LoadClearArmor(i) ==
    /\ threads[i].pc = "clear armor"
    /\ cache' = [ cache EXCEPT !.armor = << >> ]
    /\ threads' = [ threads EXCEPT ![i].pc = "query weapon" ]
    /\ UNCHANGED loadRest

\* loadSide: the query; if (!result) return;
LoadQuery(i) ==
    /\ threads[i].pc \in { "query weapon", "query armor" }
    /\ LET isWeapon == threads[i].pc = "query weapon"
           result   == loadSide(threads[i].table, isWeapon)
       IN  threads' = [ threads EXCEPT
                          ![i].rows = result,
                          ![i].pc = IF result # << >>
                                    THEN (IF isWeapon THEN "push weapon" ELSE "push armor")
                                    ELSE (IF isWeapon THEN "query armor" ELSE "loaded") ]
    /\ UNCHANGED << cache, loadRest >>

\* loadSide: out.push_back(row); while (result->NextRow())
LoadPushBack(i) ==
    /\ threads[i].pc \in { "push weapon", "push armor" }
    /\ LET isWeapon == threads[i].pc = "push weapon"
           row      == Head(threads[i].rows)
           rest     == Tail(threads[i].rows)
       IN  /\ cache' = IF isWeapon THEN [ cache EXCEPT !.weapon = Append(@, row) ]
                                   ELSE [ cache EXCEPT !.armor = Append(@, row) ]
           /\ threads' = [ threads EXCEPT
                             ![i].rows = rest,
                             ![i].pc = IF rest # << >> THEN @
                                       ELSE (IF isWeapon THEN "query armor" ELSE "loaded") ]
    /\ UNCHANGED loadRest

\* cache.loaded = true;
LoadSetLoaded(i) ==
    /\ threads[i].pc = "loaded"
    /\ cache' = [ cache EXCEPT !.loaded = TRUE ]
    /\ threads' = [ threads EXCEPT ![i].pc = "read" ]
    /\ UNCHANGED loadRest

\* pool = isWeapon ? cache.weapon : cache.armor, read by the event from here on
ReadPool(i) ==
    /\ threads[i].pc = "read"
    /\ threads' = [ threads EXCEPT
                      ![i].seen = [ weapon |-> cache.weapon, armor |-> cache.armor ],
                      ![i].pc = "done" ]
    /\ UNCHANGED << cache, loadRest >>

NextLoad ==
    \E i \in 1 .. NumThreads :
        \/ LoadCheck(i)
        \/ LoadMark(i)
        \/ LoadClearWeapon(i)
        \/ LoadClearArmor(i)
        \/ LoadQuery(i)
        \/ LoadPushBack(i)
        \/ LoadSetLoaded(i)
        \/ ReadPool(i)

SpecLoad == InitLoad /\ [][NextLoad]_vars

(***************************************************************************)
(* SpecBuild: selector calls of several players on their first use, from   *)
(* the test of the static flag to the lookup of the target's vector, one   *)
(* statement at a time.  fn names the selector: PickDowngradeEntry works   *)
(* on byType, PickUpgradeEntrySameClass on byClass.                        *)
(***************************************************************************)
\* pc: the statement the call is at; entry: its loop variable; seen: the
\* vector it found under the target's key
BuildThread(fn, target) ==
    [ fn |-> fn, target |-> target, pc |-> "check", entry |-> 1, seen |-> << >> ]

IndexMap(st, fn) == IF fn = "downgrade" THEN st.byTypeMap ELSE st.byClassMap

IndexKey(fn, proto) == IF fn = "downgrade" THEN ItemTypeKey(proto) ELSE proto.Class

WithIndexMap(st, fn, map) ==
    IF fn = "downgrade" THEN [ st EXCEPT !.byTypeMap = map ]
    ELSE [ st EXCEPT !.byClassMap = map ]

\* std::sort(vec.begin(), vec.end(), a.first < b.first)
RECURSIVE SortByLevel(_)
SortByLevel(vec) ==
    IF vec = << >> THEN << >>
    ELSE InsertByLevel(SortByLevel(SubSeq(vec, 1, Len(vec) - 1)), vec[Len(vec)])

buildRest == << pick, cache, item, live, rocks, ev, catalog, call >>

InitBuild ==
    /\ pick = IdlePick
    /\ cache = EmptyCache
    /\ item = NewItem(1, PosBackpack, 0)
    /\ live = NoLive
    /\ rocks = 0
    /\ ev = NoEvent
    /\ call = NoCall
    /\ catalog = DefaultCatalog
    /\ statics = NoStatics
    /\ threads \in [ 1 .. NumThreads ->
                       { BuildThread(fn, target) : fn \in { "downgrade", "upgrade" },
                                                   target \in { 1, 3 } } ]

\* if (!initialized)
BuildCheck(i) ==
    /\ threads[i].pc = "check"
    /\ LET initialized == IF threads[i].fn = "downgrade" THEN statics.byTypeInitialized
                          ELSE statics.byClassInitialized
       IN  threads' = [ threads EXCEPT ![i].pc = IF ~ initialized THEN "scan" ELSE "search" ]
    /\ UNCHANGED << statics, buildRest >>

\* one pass of for (entry = 1; entry < GetMaxEntry(); ++entry): push_back of
\* (ItemLevel, ItemId) for gear, nothing for the other entries
BuildPushBack(i) ==
    /\ threads[i].pc = "scan"
    /\ LET t     == threads[i]
           proto == GetItemPrototype(t.entry)
           key   == IndexKey(t.fn, proto)
           map   == IndexMap(statics, t.fn)
       IN  /\ IF t.entry < GetMaxEntry
              THEN /\ statics' =
                        IF Indexable(t.entry)
                        THEN WithIndexMap(statics, t.fn,
                               [ map EXCEPT ![key] = Append(@, << proto.ItemLevel, proto.ItemId >>) ])
                        ELSE statics
                   /\ threads' = [ threads EXCEPT ![i].entry = @ + 1 ]
              ELSE /\ statics' = statics
                   /\ threads' = [ threads EXCEPT ![i].pc = "sort" ]
    /\ UNCHANGED buildRest

\* for (auto& kv : map) std::sort(...)
BuildSort(i) ==
    /\ threads[i].pc = "sort"
    /\ LET map == IndexMap(statics, threads[i].fn)
       IN  statics' = WithIndexMap(statics, threads[i].fn,
                                   [ k \in DOMAIN map |-> SortByLevel(map[k]) ])
    /\ threads' = [ threads EXCEPT ![i].pc = "set" ]
    /\ UNCHANGED buildRest

\* initialized = true;
BuildSetInitialized(i) ==
    /\ threads[i].pc = "set"
    /\ statics' = IF threads[i].fn = "downgrade"
                  THEN [ statics EXCEPT !.byTypeInitialized = TRUE ]
                  ELSE [ statics EXCEPT !.byClassInitialized = TRUE ]
    /\ threads' = [ threads EXCEPT ![i].pc = "search" ]
    /\ UNCHANGED buildRest

\* auto itr = map.find(key); auto const& vec = itr->second;
SearchIndex(i) ==
    /\ threads[i].pc = "search"
    /\ threads' = [ threads EXCEPT
                      ![i].seen = IndexMap(statics, threads[i].fn)[
                                      IndexKey(threads[i].fn, GetItemPrototype(threads[i].target))],
                      ![i].pc = "done" ]
    /\ UNCHANGED << statics, buildRest >>

NextBuild ==
    \E i \in 1 .. NumThreads :
        \/ BuildCheck(i)
        \/ BuildPushBack(i)
        \/ BuildSort(i)
        \/ BuildSetInitialized(i)
        \/ SearchIndex(i)

SpecBuild == InitBuild /\ [][NextBuild]_vars

(***************************************************************************)
(* SpecSteps: one item-use event, one stage and one loop iteration at a    *)
(* time.  threads[1] is the handler's frame: pc is the statement it is at, *)
(* modifierCount and picks are the locals of lines 820-821 (picks keeps,   *)
(* with every entry of rolled, the group it was drawn from), iterations    *)
(* counts the passes through the body of the while loop.                   *)
(***************************************************************************)
Frame == threads[1]

\* the record the stage operators work on, read from the variables
Here ==
    [ cache |-> cache, item |-> item, live |-> live, rocks |-> rocks,
      log |-> ev.log, outcome |-> "running", rolled |-> ev.rolled, groups |-> ev.groups ]

\* the stage left record r; a stage that returned ends the call
Goto(r, pc, frame) ==
    /\ cache' = r.cache
    /\ item' = r.item
    /\ live' = r.live
    /\ rocks' = r.rocks
    /\ ev' = [ ev EXCEPT !.outcome = r.outcome, !.log = r.log,
                         !.rolled = r.rolled, !.groups = r.groups ]
    /\ threads' = << [ frame EXCEPT !.pc = IF r.outcome = "running" THEN pc ELSE "returned" ] >>
    /\ UNCHANGED << pick, tierVars >>

InitSteps ==
    /\ pick = IdlePick
    /\ catalog = DefaultCatalog
    /\ statics = BuildByClass(BuildByType(NoStatics))
    /\ call = NoCall
    /\ live = NoLive
    /\ rocks = 1
    /\ threads = << [ pc |-> "validate", modifierCount |-> 0, picks |-> << >>,
                      iterations |-> 0 ] >>
    /\ \E tgt \in Targets, entry \in { 1, 2, 3 } :
          /\ ev = [ NoEvent EXCEPT !.target = tgt, !.outcome = "running" ]
          /\ item = NewItem(entry, PosInBag, 0)
          /\ cache \in { EmptyCache }
                       \cup { LoadedCache(entry, pool)
                              : pool \in SeqsUpTo({ r \in SlamrockWhitelistRow :
                                                      r.groupKey = KeyBlank /\ r.weight = 1 },
                                                    MaxRows) }

\* lines 683-716
StepValidate ==
    /\ Frame.pc = "validate"
    /\ IF TargetRejected(ev.target, item)
       THEN Goto(Finish(Log(Here, << "SendCastResult", "SPELL_FAILED_BAD_TARGETS" >>),
                        "rejected"), "returned", Frame)
       ELSE Goto(Here, "upgrade gate", Frame)

\* lines 719-754
StepUpgradeGate ==
    /\ Frame.pc = "upgrade gate"
    /\ \E r \in UpgradeStage(Here) : Goto(r, "downgrade gate", Frame)

\* lines 757-794
StepDowngradeGate ==
    /\ Frame.pc = "downgrade gate"
    /\ \E r \in DowngradeStage(Here) : Goto(r, "pool", Frame)

\* lines 797-849: the lazy load, the pool of the target's type, the report
\* of an empty pool, the draw of modifierCount and its cap
StepPool ==
    /\ Frame.pc = "pool"
    /\ \E l \in LoadStage(Here) :
          LET pool      == PoolFor(l)
              itemLevel == GetItemPrototype(l.item.entry).ItemLevel
          IN  IF pool = << >>
              THEN Goto(Finish(Log(l, << "SendNotification", "whitelist empty" >>),
                               "whitelist_empty"), "returned", Frame)
              ELSE IF EligibleGroups(pool, itemLevel) = { }
              THEN Goto(Finish(Log(l, << "SendNotification", "no eligible enchantments" >>),
                               "no_eligible"), "returned", Frame)
              ELSE \E modifierCount \in 1 .. SLAMROCK_MAX_MODIFIERS :
                      Goto(l, "loop", [ Frame EXCEPT !.modifierCount = modifierCount ])

StepLoop_NeverFull ==
    /\ Frame.pc = "loop"
    /\ Frame.iterations <= SLAMROCK_MAX_MODIFIERS
    /\ \E p \in RollOnce(PoolFor(Here), GetItemPrototype(item.entry).ItemLevel,
                          noExclusions) :
          IF ~ p.ok
          THEN Goto(Here, "after loop", [ Frame EXCEPT !.iterations = @ + 1 ])
          ELSE Goto(Here, "loop",
                    [ Frame EXCEPT !.iterations = @ + 1,
                                   !.picks = Append(@, [ id |-> p.id, key |-> p.key ]) ])

\* lines 851-861: the test of the while loop and one pass of its body
StepLoop ==
    /\ Frame.pc = "loop"
    /\ IF Len(Frame.picks) < Frame.modifierCount
       THEN \E p \in RollOnce(PoolFor(Here), GetItemPrototype(item.entry).ItemLevel,
                               noExclusions) :
               IF ~ p.ok
               THEN Goto(Here, "after loop", [ Frame EXCEPT !.iterations = @ + 1 ])
               ELSE Goto(Here, "loop",
                         [ Frame EXCEPT !.iterations = @ + 1,
                                        !.picks = Append(@, [ id |-> p.id, key |-> p.key ]) ])
       ELSE Goto(Here, "after loop", Frame)

\* lines 863-927
StepFinish ==
    /\ Frame.pc = "after loop"
    /\ \E r \in { Empower(Here, Frame.picks) } : Goto(r, "returned", Frame)

NextSteps ==
    \/ StepValidate
    \/ StepUpgradeGate
    \/ StepDowngradeGate
    \/ StepPool
    \/ StepLoop
    \/ StepFinish

SpecSteps == InitSteps /\ [][NextSteps]_vars

(***************************************************************************)
(* Reference definitions for the sampler's properties, written from the    *)
(* rows and not from the sampler's map.                                    *)
(***************************************************************************)
EligibleRowsOfGroup(pool, itemLevel, key) ==
    { i \in 1 .. Len(pool) :
        /\ GetEffectiveGroupKey(pool[i]) = key
        /\ pool[i].weight > 0
        /\ pool[i].minIlvl <= itemLevel }

CandidateGroups(pool, itemLevel, excludeGroups) ==
    { k \in { GetEffectiveGroupKey(pool[i]) : i \in 1 .. Len(pool) } :
        /\ EligibleRowsOfGroup(pool, itemLevel, k) # { }
        /\ \A j \in 1 .. Len(excludeGroups) : excludeGroups[j] # k }

MaxWeightOfGroup(pool, itemLevel, key) ==
    MaxOf({ pool[i].weight : i \in EligibleRowsOfGroup(pool, itemLevel, key) })

RECURSIVE SumOver(_, _, _)
SumOver(S, pool, itemLevel) ==
    IF S = { } THEN 0
    ELSE LET k == CHOOSE x \in S : TRUE
         IN  MaxWeightOfGroup(pool, itemLevel, k) + SumOver(S \ { k }, pool, itemLevel)

\* C9: when PickWeightedGroupFromWhitelist returns a group key, the group has
\* a row with weight > 0 and minIlvl <= itemLevel and the key is not excluded.
C9_PickedGroupIsEligible ==
    (pick.out.fn = "group" /\ pick.out.ok) =>
        /\ EligibleRowsOfGroup(pick.pool, pick.itemLevel, pick.out.key) # { }
        /\ \A j \in 1 .. Len(pick.excludeGroups) : pick.excludeGroups[j] # pick.out.key

\* a group was returned while the pool also holds a row below the tier gate or
\* of weight 0, and another group is excluded
C9_Witness ==
    /\ pick.out.fn = "group" /\ pick.out.ok
    /\ pick.excludeGroups # << >>
    /\ \E i \in 1 .. Len(pick.pool) :
          /\ GetEffectiveGroupKey(pick.pool[i]) = pick.excludeGroups[1]
          /\ pick.pool[i].weight > 0
          /\ pick.pool[i].minIlvl <= pick.itemLevel
    /\ Len(pick.pool) = 2

\* C10: the number of draws that select a group is the largest weight among
\* its eligible rows, totalWeight is the sum of these maxima, and one more
\* eligible row of at most that weight changes no draw's result.
C10_GroupWeightIsMax ==
    LET pool   == pick.pool
        lvl    == pick.itemLevel
        ex     == pick.excludeGroups
        groups == CandidateGroups(pool, lvl, ex)
        total  == TotalWeight(GroupWeights(pool, lvl, ex))
    IN  /\ total = SumOver(groups, pool, lvl)
        /\ \A k \in groups :
              Cardinality({ roll \in 1 .. total :
                  PickWeightedGroupFromWhitelist(pool, lvl, ex, roll)
                      = [ ok |-> TRUE, key |-> k ] })
                = MaxWeightOfGroup(pool, lvl, k)
        /\ (pick.out.fn = "group" /\ pick.out.ok) =>
              \A row \in SlamrockWhitelistRow :
                  ( /\ row.weight > 0
                    /\ row.minIlvl <= lvl
                    /\ GetEffectiveGroupKey(row) \in groups
                    /\ row.weight <= MaxWeightOfGroup(pool, lvl, GetEffectiveGroupKey(row)) )
                  => /\ TotalWeight(GroupWeights(Append(pool, row), lvl, ex)) = total
                     /\ PickWeightedGroupFromWhitelist(Append(pool, row), lvl, ex, pick.out.roll)
                          = [ ok |-> TRUE, key |-> pick.out.key ]

\* a group with two eligible rows of weights 1 and 3 was selected by draw 3
C10_Witness ==
    /\ pick.out.fn = "group" /\ pick.out.ok /\ pick.out.roll = 3
    /\ { pick.pool[i].weight :
           i \in EligibleRowsOfGroup(pick.pool, pick.itemLevel, pick.out.key) } = { 1, 3 }

(***************************************************************************)
(* Statements about item-use events, read from the event record ev and     *)
(* the item the event left behind.                                         *)
(***************************************************************************)
InLog(e) == \E i \in DOMAIN ev.log : ev.log[i] = e

MarkerSlots(it) == { s \in EnchSlots : it.ench[s] = SLAMROCK_MARKER_ENCHANT_ID }

\* C1: the entries rolled by one successful item-use event come from
\* pairwise different effective groups, so no group is picked twice.
C1_RolledGroupsDistinct ==
    \A i, j \in DOMAIN ev.groups : i # j => ev.groups[i] # ev.groups[j]

PlaceFailed(e) == e = << "EquipNewItem", "nullptr" >> \/ e = << "StoreNewItem", "nullptr" >>

\* C2: a swap never ends with the original destroyed and no replacement
\* placed: no failed placement follows a destruction of the target.
C2_SwapNeverLosesItem ==
    \A i \in DOMAIN ev.log :
        PlaceFailed(ev.log[i]) =>
            ~ \E j \in 1 .. i - 1 : ev.log[j] = << "DestroyItem", "target" >>

ValidationOf(where) ==
    IF where = "equipped" THEN << "CanEquipNewItem", "EQUIP_ERR_OK" >>
    ELSE << "CanStoreNewItem", "any", "EQUIP_ERR_OK" >>

ValidationFailed(e) ==
    \/ e[1] = "CanEquipNewItem" /\ e[2] # "EQUIP_ERR_OK"
    \/ e[1] = "CanStoreNewItem" /\ e[2] = "any" /\ e[3] # "EQUIP_ERR_OK"

\* C3: every DestroyItem of a swap directly follows the successful
\* validation of its case (CanEquipNewItem for an equipped target,
\* CanStoreNewItem at any location for a bagged one); a failed validation
\* is followed by the report of its reason and by no DestroyItem.
C3_DestroyOnlyAfterValidation ==
    /\ \A i \in DOMAIN ev.log :
          ev.log[i][1] = "DestroyItem" =>
              /\ i >= 3
              /\ ev.log[i - 2][1] = "TryDowngradeItemInPlace"
              /\ ev.log[i - 1] = ValidationOf(ev.log[i - 2][2])
    /\ \A i \in DOMAIN ev.log :
          ValidationFailed(ev.log[i]) =>
              /\ i + 1 \in DOMAIN ev.log
              /\ ev.log[i + 1][1] = "outFailReason"
              /\ ev.log[i + 1][2] = ev.log[i][Len(ev.log[i])]
              /\ i + 2 \in DOMAIN ev.log => ev.log[i + 2][1] # "DestroyItem"

C3_Witness ==
    /\ InLog(<< "TryDowngradeItemInPlace", "equipped" >>)
    /\ InLog(<< "DestroyItem", "target" >>)
    /\ ev.outcome = "downgraded"

\* C4: a successful empowerment leaves the marker in exactly one of the
\* permanent slot and PROP0: the permanent slot when it was empty or held
\* the marker before the event, PROP0 (with the permanent slot unchanged)
\* when it held another enchantment.
C4_MarkerInExactlyOneSlot ==
    [][ ev'.outcome = "empowered" =>
          LET p == item.ench[PERM_ENCHANTMENT_SLOT]
          IN  IF p = 0 \/ p = SLAMROCK_MARKER_ENCHANT_ID
              THEN /\ item'.ench[PERM_ENCHANTMENT_SLOT] = SLAMROCK_MARKER_ENCHANT_ID
                   /\ item'.ench[SLAMROCK_MARKER_SLOT] # SLAMROCK_MARKER_ENCHANT_ID
              ELSE /\ item'.ench[PERM_ENCHANTMENT_SLOT] = p
                   /\ item'.ench[SLAMROCK_MARKER_SLOT] = SLAMROCK_MARKER_ENCHANT_ID ]_vars

C4_Witness ==
    /\ ev.outcome = "empowered"
    /\ rocks = MaxRocks - 2
    /\ item.ench[PERM_ENCHANTMENT_SLOT] = ForeignPermEnchant
    /\ item.ench[SLAMROCK_MARKER_SLOT] = SLAMROCK_MARKER_ENCHANT_ID

\* C5: between events no slot's effect is live more than once, and an
\* effect is live only while the item is equipped and the slot holds that
\* enchantment.
C5_LiveAtMostOnceAndHeld ==
    \A s \in EnchSlots : \A e \in LiveIds :
        /\ live[s][e] <= 1
        /\ live[s][e] >= 1 => item.alive /\ IsEquipped(item) /\ item.ench[s] = e

C5_Witness ==
    /\ ev.outcome = "empowered"
    /\ rocks = MaxRocks - 2
    /\ IsEquipped(item)
    /\ InLog(<< "ApplyEnchantment", "PROP1", "remove" >>)
    /\ item.ench["PROP1"] # 0
    /\ live["PROP1"][item.ench["PROP1"]] = 1

RolledSets == SeqsUpTo(EnchantIds, SLAMROCK_MAX_MODIFIERS) \ { << >> }

Running(it) ==
    [ cache |-> cache, item |-> it, live |-> NoLive, rocks |-> rocks, log |-> << >>,
      outcome |-> "running", rolled |-> << >>, groups |-> << >> ]

EmptyProps(it) ==
    [ it EXCEPT !.ench = [ s \in EnchSlots |->
                             IF s = PERM_ENCHANTMENT_SLOT THEN it.ench[s] ELSE 0 ] ]

WithoutPermMarker(it) ==
    IF it.ench[PERM_ENCHANTMENT_SLOT] = SLAMROCK_MARKER_ENCHANT_ID
    THEN [ it EXCEPT !.ench[PERM_ENCHANTMENT_SLOT] = 0 ]
    ELSE it

\* C6 as stated: clear followed by apply of a rolled set leaves the five
\* slots as one apply of that set on the item with empty property slots
\* does, whatever the permanent slot holds.
C6_ClearThenApplyAsSingleApply ==
    \A r \in RolledSets :
        ApplyRolled(ClearSlamrockEnchants(Running(item)), r).item.ench
            = ApplyRolled(Running(EmptyProps(item)), r).item.ench

\* C6 amended: clear followed by apply of a rolled set leaves the five
\* slots as one apply of that set does on the item with empty property
\* slots and with the marker, if the permanent slot held it, taken out of
\* the permanent slot.
C6_ClearThenApplyAsApplyOnCleared ==
    \A r \in RolledSets :
        ApplyRolled(ClearSlamrockEnchants(Running(item)), r).item.ench
            = ApplyRolled(Running(WithoutPermMarker(EmptyProps(item))), r).item.ench

C6_Witness ==
    /\ item.alive /\ IsEquipped(item)
    /\ item.ench[PERM_ENCHANTMENT_SLOT] = SLAMROCK_MARKER_ENCHANT_ID
    /\ item.ench["PROP1"] # 0
    /\ rocks >= 1

TouchesPerm(e) ==
    /\ e[1] \in { "ApplyEnchantment", "ClearEnchantment", "SetEnchantment" }
    /\ e[2] = PERM_ENCHANTMENT_SLOT

\* C7: an item-use event that does not swap the item leaves a permanent
\* enchantment other than the marker in its slot, runs no apply, remove,
\* clear or set on that slot, and leaves its live effect as it was.
C7_ForeignPermPreserved ==
    [][ ( /\ ev'.outcome \in { "rejected", "whitelist_empty", "no_eligible",
                               "roll_failed", "empowered" }
          /\ \A i \in DOMAIN ev'.log : ev'.log[i][1] # "DestroyItem"
          /\ item.ench[PERM_ENCHANTMENT_SLOT] # 0
          /\ item.ench[PERM_ENCHANTMENT_SLOT] # SLAMROCK_MARKER_ENCHANT_ID )
        => /\ item'.ench[PERM_ENCHANTMENT_SLOT] = item.ench[PERM_ENCHANTMENT_SLOT]
           /\ live'[PERM_ENCHANTMENT_SLOT] = live[PERM_ENCHANTMENT_SLOT]
           /\ \A i \in DOMAIN ev'.log : ~ TouchesPerm(ev'.log[i]) ]_vars

C7_Witness ==
    /\ ev.outcome = "empowered"
    /\ IsEquipped(item)
    /\ item.ench[PERM_ENCHANTMENT_SLOT] = ForeignPermEnchant
    /\ live[PERM_ENCHANTMENT_SLOT][ForeignPermEnchant] = 1
    /\ InLog(<< "ClearEnchantment", "PROP0" >>)

\* C8: whatever rows the whitelist table holds, the marker id occupies at
\* most one of the item's five slots and never a modifier slot PROP1..PROP3.
C8_AtMostOneMarker ==
    /\ Cardinality(MarkerSlots(item)) <= 1
    /\ \A i \in DOMAIN SLAMROCK_MODIFIER_SLOTS :
          item.ench[SLAMROCK_MODIFIER_SLOTS[i]] # SLAMROCK_MARKER_ENCHANT_ID


(***************************************************************************)
(* The rank picker against the rows of the group, counted in pool order.   *)
(***************************************************************************)
NthEligibleRow(pool, itemLevel, key, r) ==
    CHOOSE i \in EligibleRowsOfGroup(pool, itemLevel, key) :
        Cardinality({ j \in EligibleRowsOfGroup(pool, itemLevel, key) : j <= i }) = r

\* C11: with n >= 1 eligible rows in the group, draw r in 1..n returns the
\* enchantment id of the r-th eligible row of the group in pool order,
\* whatever the weights; with no eligible row the picker fails.
C11_RankIsNthEligibleRow ==
    LET pool == pick.pool
        lvl  == pick.itemLevel
        key  == pick.groupKey
        n    == Cardinality(EligibleRowsOfGroup(pool, lvl, key))
    IN  /\ EligibleCount(pool, lvl, key) = n
        /\ \A r \in 1 .. n :
              PickRandomEligibleRankEnchantForGroup(pool, lvl, key, r)
                = [ ok |-> TRUE, id |-> pool[NthEligibleRow(pool, lvl, key, r)].enchantId ]
        /\ pick.out.fn = "rank" =>
              /\ pick.out.ok <=> n >= 1
              /\ pick.out.ok =>
                    pick.out.id = pool[NthEligibleRow(pool, lvl, key, pick.out.roll)].enchantId

\* draw 2 returned the second eligible row of a group whose first eligible
\* row has another id and a larger weight
C11_Witness ==
    /\ pick.out.fn = "rank" /\ pick.out.ok /\ pick.out.roll = 2
    /\ Len(pick.pool) = 2
    /\ pick.pool[1].enchantId # pick.pool[2].enchantId
    /\ pick.pool[1].weight > pick.pool[2].weight
    /\ pick.out.id = pick.pool[2].enchantId

(***************************************************************************)
(* The result of the roll loop and what the handler does with it.          *)
(***************************************************************************)
PickSeqs ==
    SeqsUpTo({ [ id |-> e, key |-> to_string(e) ] : e \in EnchantIds },
             SLAMROCK_MAX_MODIFIERS)

ModifiersHeld(it, rolled) ==
    \A i \in DOMAIN SLAMROCK_MODIFIER_SLOTS :
        it.ench[SLAMROCK_MODIFIER_SLOTS[i]] = IF i <= Len(rolled) THEN rolled[i] ELSE 0

\* C12: the roll of an event holds 0 to SLAMROCK_MAX_MODIFIERS ids; every
\* result of length 1 or more, whatever modifierCount was drawn, is applied
\* to the modifier slots in order, and only the empty result ends the event
\* with the report of no eligible enchantments.
C12_RollLengthAndAcceptance ==
    /\ Len(ev.rolled) <= SLAMROCK_MAX_MODIFIERS
    /\ ev.outcome = "empowered" =>
          /\ Len(ev.rolled) >= 1
          /\ ModifiersHeld(item, ev.rolled)
    /\ ev.rolled = << >> => ev.outcome # "empowered"
    /\ \A picks \in PickSeqs :
          LET r == Empower(Running(item), picks)
          IN  IF picks = << >>
              THEN /\ r.outcome = "roll_failed"
                   /\ r.item = item
                   /\ r.rocks = rocks
              ELSE /\ r.outcome = "empowered"
                   /\ ModifiersHeld(r.item, IdsOf(picks))

C12_Witness ==
    /\ ev.outcome = "empowered"
    /\ Len(ev.rolled) = SLAMROCK_MAX_MODIFIERS
    /\ ModifiersHeld(item, ev.rolled)

\* C13: the roll stops when every eligible group of the target's pool has
\* been chosen: it never holds more entries than the pool has eligible
\* groups at the item's level.
C13_RollStopsAtGroupCount ==
    ev.outcome = "empowered" =>
        Len(ev.rolled) <= Cardinality(CandidateGroups(PoolFor(Running(item)),
                                          GetItemPrototype(item.entry).ItemLevel, << >>))

(***************************************************************************)
(* The selectors against the catalog itself.                               *)
(***************************************************************************)
IsGear(entry) ==
    /\ catalog[entry].InventoryType # "INVTYPE_NON_EQUIP"
    /\ catalog[entry].InventoryType # "INVTYPE_BAG"

UpgradeRange(target, delta) ==
    { e \in DOMAIN catalog :
        /\ e # target
        /\ IsGear(e)
        /\ catalog[e].Class = catalog[target].Class
        /\ catalog[e].ItemLevel >= catalog[target].ItemLevel
        /\ catalog[e].ItemLevel <= catalog[target].ItemLevel + delta }

LowerOfSameType(target) ==
    { e \in DOMAIN catalog :
        /\ IsGear(e)
        /\ catalog[e].Class = catalog[target].Class
        /\ catalog[e].SubClass = catalog[target].SubClass
        /\ catalog[e].InventoryType = catalog[target].InventoryType
        /\ catalog[e].ItemLevel < catalog[target].ItemLevel }

\* C14: PickUpgradeEntrySameClass returns only ids of gear of the target's
\* class, other than the target, with item level in [level, level + delta],
\* every such id for some draw, and 0 exactly when there is none.
C14_UpgradeWithinRange ==
    LET range == UpgradeRange(call.target, SLAMROCK_UPGRADE_MAX_ILVL_DELTA)
    IN  /\ UpgradePicks(GetItemPrototype(call.target))
              = IF range = { } THEN { 0 } ELSE range
        /\ call.fn = "upgrade" => call.out \in range \cup { 0 }
        /\ call.fn = "upgrade" => (call.out = 0 <=> range = { })

\* an upgrade to an item of equal level was picked while the catalog also
\* holds an item of the class above the range
C14_Witness ==
    /\ call.fn = "upgrade" /\ call.out # 0
    /\ catalog[call.out].ItemLevel = catalog[call.target].ItemLevel
    /\ \E e \in DOMAIN catalog :
          /\ catalog[e].Class = catalog[call.target].Class
          /\ IsGear(e)
          /\ catalog[e].ItemLevel
                > catalog[call.target].ItemLevel + SLAMROCK_UPGRADE_MAX_ILVL_DELTA

\* C15: the downgrade candidates are exactly the gear of the target's class,
\* subclass and inventory type with a strictly lower item level; the early
\* stop of the scan loses none of them and lets in no other item.
C15_DowngradeCandidatesExact ==
    LET proto == GetItemPrototype(call.target)
        lower == LowerOfSameType(call.target)
    IN  /\ { ScanLower(byType(ItemTypeKey(proto)), proto)[i]
              : i \in 1 .. Len(ScanLower(byType(ItemTypeKey(proto)), proto)) } = lower
        /\ Len(ScanLower(byType(ItemTypeKey(proto)), proto)) = Cardinality(lower)
        /\ DowngradePicks(proto) = IF lower = { } THEN { 0 } ELSE lower
        /\ call.fn = "downgrade" => call.out \in lower \cup { 0 }

\* the index of the target's type holds three items of rising levels, the
\* target is the middle one, and the one candidate, the lowest, was picked
C15_Witness ==
    /\ call.fn = "downgrade"
    /\ DOMAIN catalog = { 1, 2, 3 }
    /\ \A e \in DOMAIN catalog :
          ItemTypeKey(catalog[e]) = << "WEAPON", 7, "INVTYPE_WEAPON" >>
    /\ catalog[1].ItemLevel = 7 /\ catalog[2].ItemLevel = 1 /\ catalog[3].ItemLevel = 0
    /\ call.target = 2
    /\ LowerOfSameType(call.target) = { 3 }
    /\ call.out = 3

\* C16: for a target of item level 0 PickDowngradeEntry returns 0 and leaves
\* its statics as they were, index not built; the handler's downgrade gate
\* then leaves the item as it is and goes on.
C16_LevelZeroNeverDowngrades ==
    GetItemPrototype(call.target).ItemLevel = 0 =>
        /\ DowngradePicks(GetItemPrototype(call.target)) = { 0 }
        /\ call.fn = "downgrade" =>
              /\ call.out = 0
              /\ ~ statics.byTypeInitialized
              /\ statics.byTypeMap = NoStatics.byTypeMap
        /\ \A r \in DowngradeStage(Running(NewItem(call.target, PosBackpack, 0))) :
              /\ r.outcome = "running"
              /\ r.item = NewItem(call.target, PosBackpack, 0)
              /\ r.rocks = rocks

\* a level-0 target with a same-type item in the catalog
C16_Witness ==
    /\ call.fn = "downgrade"
    /\ GetItemPrototype(call.target).ItemLevel = 0
    /\ \E e \in DOMAIN catalog :
          e # call.target /\ ItemTypeKey(catalog[e]) = ItemTypeKey(catalog[call.target])

(***************************************************************************)
(* Events that end without a change.                                       *)
(***************************************************************************)
HandlerRan(e) == e.outcome \notin { "idle", "equipped", "unequipped" }

RejectionCause(tgt, it) ==
    \/ tgt \in { "none", "container", "foreign" }
    \/ tgt = "item" /\ it.rnd # 0

\* C17: an item-use with no target, a bag or non-equippable target, a target
\* of another owner or a target with a random property id ends rejected, and
\* a rejected event leaves the item with its slots and position, the live
\* effects, the whitelist cache and the Slamrock count as they were and does
\* nothing but report the bad target.
C17_RejectedChangesNothing ==
    [][ /\ (HandlerRan(ev') /\ RejectionCause(ev'.target, item))
              => ev'.outcome = "rejected"
        /\ ev'.outcome = "rejected"
              => /\ item' = item
                 /\ live' = live
                 /\ cache' = cache
                 /\ rocks' = rocks
                 /\ ev'.log = << << "SendCastResult", "SPELL_FAILED_BAD_TARGETS" >> >>
                 /\ ev'.rolled = << >> ]_vars

\* an owned item with a random property id was the target, before the
\* whitelist was ever loaded
C17_Witness ==
    /\ ev.outcome = "rejected"
    /\ ev.target = "item"
    /\ item.alive /\ item.rnd # 0
    /\ ~ cache.loaded /\ ~ cache.attemptedLoad
    /\ rocks >= 1

ConfigurationEmpty == { "whitelist_empty", "no_eligible" }

ChangingCalls ==
    { "ClearEnchantment", "SetEnchantment", "ApplyEnchantment", "SetState",
      "SetVisibleItemSlot", "UpdateDamagePhysical", "DestroyItemCount" }

\* C18: an item-use that finds the target's pool empty, or no row of it with
\* weight > 0 and minIlvl <= the item's level, reports and ends: no clear, no
\* slot write, no live-effect call and no consumption happen in the event,
\* every slot of the target holds what it held and the Slamrock count stays;
\* the event ends this way exactly when the pool has no eligible row.
C18_EmptyConfigurationChangesNothing ==
    [][ LET pool == IF GetItemPrototype(item'.entry).Class = "WEAPON"
                    THEN cache'.weapon ELSE cache'.armor
            eligible == { i \in 1 .. Len(pool) :
                            /\ pool[i].weight # 0
                            /\ pool[i].minIlvl <= GetItemPrototype(item'.entry).ItemLevel }
        IN  /\ ev'.outcome = "whitelist_empty" => pool = << >>
            /\ ev'.outcome = "no_eligible" => pool # << >> /\ eligible = { }
            /\ ev'.outcome = "empowered" => eligible # { }
            /\ ev'.outcome \in ConfigurationEmpty
                  => /\ item'.ench = item.ench
                     /\ item'.entry = item.entry
                     /\ rocks' = rocks
                     /\ ev'.rolled = << >>
                     /\ \A i \in 1 .. Len(ev'.log) : ev'.log[i][1] \notin ChangingCalls
                     /\ (\A i \in 1 .. Len(ev'.log) : ev'.log[i][1] # "TryDowngradeItemInPlace")
                           => item' = item /\ live' = live ]_vars

\* an equipped item holding a permanent enchantment met, after the load, an
\* empty pool
C18_Witness ==
    /\ ev.outcome = "whitelist_empty"
    /\ InLog(<< "LoadWhitelistFromDB" >>)
    /\ item.alive /\ IsEquipped(item)
    /\ item.ench[PERM_ENCHANTMENT_SLOT] # 0
    /\ rocks >= 1

(***************************************************************************)
(* Events of several players on the shared caches.                         *)
(***************************************************************************)
\* C19: every event that reads the pool finds in the cache, for the weapon
\* and armor sequences together, the pair before the load (both empty) or
\* the pair a complete load gives, never a mix or a partly filled sequence.
C19_ReaderSeesOldOrNewPair ==
    \A i \in DOMAIN threads :
        threads[i].pc = "done" =>
            \/ threads[i].seen = [ weapon |-> << >>, armor |-> << >> ]
            \/ threads[i].seen = [ weapon |-> loadSide(threads[i].table, TRUE),
                                   armor  |-> loadSide(threads[i].table, FALSE) ]

\* C20: when several calls race on the first use of a selector, the vector
\* every call searches, and the index left behind when all have finished,
\* is the one a single build gives: sorted, each item once.
C20_RacingBuildsGiveSequentialIndex ==
    /\ \A i \in DOMAIN threads :
          threads[i].pc = "done" =>
              threads[i].seen =
                  IF threads[i].fn = "downgrade"
                  THEN byType(ItemTypeKey(GetItemPrototype(threads[i].target)))
                  ELSE byClass(GetItemPrototype(threads[i].target).Class)
    /\ (\A i \in DOMAIN threads : threads[i].pc = "done") =>
          /\ statics.byTypeInitialized
                => statics.byTypeMap = [ k \in ItemTypes |-> byType(k) ]
          /\ statics.byClassInitialized
                => statics.byClassMap = [ c \in ItemClasses |-> byClass(c) ]

InLoadWhitelistFromDB(t) ==
    t.pc \in { "clear weapon", "clear armor", "query weapon", "query armor",
               "push weapon", "push armor", "loaded" }

\* C21: over every interleaving of item-use events the whitelist is loaded
\* at most once: no two events are ever inside LoadWhitelistFromDB, and an
\* event enters it only while the cache is still untouched by a load.
C21_LoadAtMostOnce ==
    Cardinality({ i \in DOMAIN threads : InLoadWhitelistFromDB(threads[i]) }) <= 1

(***************************************************************************)
(* The order of the stages of one event.                                   *)
(***************************************************************************)
Accepted(e) == HandlerRan(e) /\ e.outcome # "rejected"

Swapped(e) == e.outcome \in { "upgraded", "downgraded" }

ModifierStageCalls ==
    { "LoadWhitelistFromDB", "SendNotification", "ClearEnchantment", "SetEnchantment",
      "ApplyEnchantment", "SetState", "SetVisibleItemSlot", "UpdateDamagePhysical" }

IndexesOf(log, heads) == { i \in DOMAIN log : log[i][1] \in heads }

StagesInOrder(e) ==
    LET up   == IndexesOf(e.log, { "upgrade roll" })
        down == IndexesOf(e.log, { "downgrade roll" })
        mod  == IndexesOf(e.log, ModifierStageCalls)
    IN  /\ up = { 1 }
        /\ Cardinality(down) <= 1
        /\ mod # { } => down # { }
        /\ \A d \in down, k \in mod : d < k
        /\ \A i \in IndexesOf(e.log, { "TryDowngradeItemInPlace" }) :
              e.log[i - 1][1] \in { "upgrade roll", "downgrade roll" }
              /\ e.log[i - 1][2] = "hit"

\* C22: an accepted item-use runs the upgrade gate, then the downgrade gate,
\* then the modifier roll; a swap that succeeds ends the event before any
\* later stage and before any slot call; an event that goes past a gate
\* does so with the target still the same item at the same position.
C22_StagesInOrderAndFallThroughIntact ==
    [][ Accepted(ev') =>
          /\ StagesInOrder(ev')
          /\ ev'.outcome = "upgraded" => IndexesOf(ev'.log, { "downgrade roll" }) = { }
          /\ Swapped(ev') =>
                /\ IndexesOf(ev'.log, ModifierStageCalls) = { }
                /\ ev'.log[Len(ev'.log)] = << "DestroyItemCount", "slamrock" >>
                /\ item'.ench = NoEnchants
          /\ ~ Swapped(ev') =>
                /\ item'.alive = item.alive
                /\ item'.entry = item.entry
                /\ item'.bag = item.bag /\ item'.slot = item.slot ]_vars

\* C23: once a swap has destroyed the target and the placement has failed,
\* the event makes no further call: no downgrade attempt, no load, no clear
\* and no apply follows the failed placement.
C23_NothingAfterFailedPlacement ==
    \A i \in DOMAIN ev.log :
        (PlaceFailed(ev.log[i]) /\ \E j \in 1 .. i - 1 : ev.log[j] = << "DestroyItem", "target" >>)
            => i = Len(ev.log)

(***************************************************************************)
(* Consumption of the Slamrock.                                            *)
(***************************************************************************)
Committed(e) == e.outcome \in { "upgraded", "downgraded", "empowered" }

PlaceSucceeded(e) == e = << "EquipNewItem", "item" >> \/ e = << "StoreNewItem", "item" >>

\* C24: an item-use destroys one Slamrock when it ends with a successful
\* upgrade swap, a successful downgrade swap or at least one modifier
\* written to the target, and none on every other path; never more than one.
C24_ConsumedExactlyWhenCommitted ==
    [][ HandlerRan(ev') =>
          LET consumed == IndexesOf(ev'.log, { "DestroyItemCount" })
          IN  /\ Cardinality(consumed) = IF Committed(ev') THEN 1 ELSE 0
              /\ rocks' = rocks - Cardinality(consumed)
              /\ Swapped(ev') <=>
                    (Len(ev'.log) >= 2 /\ PlaceSucceeded(ev'.log[Len(ev'.log) - 1]))
              /\ ev'.outcome = "empowered" <=>
                    (ev'.rolled # << >> /\ IndexesOf(ev'.log, { "SetEnchantment" }) # { })
              /\ ev'.outcome = "empowered" =>
                    Cardinality(IndexesOf(ev'.log, { "SetEnchantment" })) = Len(ev'.rolled) + 1 ]_vars

\* the last Slamrock was kept by an event whose swap failed at validation
\* and whose pool was empty
C24_Witness ==
    /\ rocks = 1
    /\ ev.outcome = "whitelist_empty"
    /\ \E i \in DOMAIN ev.log : ValidationFailed(ev.log[i])

(***************************************************************************)
(* The slots after an empowerment.                                         *)
(***************************************************************************)
\* C25: after an empowerment with rolled sequence r of length n, modifier
\* slot i holds r[i] for i <= n and the modifier slots after n are empty,
\* whatever the slots held before, and the item was marked changed after
\* the last slot write.
C25_ModifierSlotsHoldLastRoll ==
    ev.outcome = "empowered" =>
        /\ Len(ev.rolled) \in 1 .. SLAMROCK_MAX_MODIFIERS
        /\ \A i \in 1 .. SLAMROCK_MAX_MODIFIERS :
              item.ench[SLAMROCK_MODIFIER_SLOTS[i]]
                  = IF i <= Len(ev.rolled) THEN ev.rolled[i] ELSE 0
        /\ \E k \in DOMAIN ev.log :
              /\ ev.log[k] = << "SetState", "ITEM_CHANGED" >>
              /\ \A j \in IndexesOf(ev.log, { "SetEnchantment", "ClearEnchantment" }) : j < k

\* the second empowerment of an item, with one modifier
C25_Witness ==
    /\ ev.outcome = "empowered"
    /\ Len(ev.rolled) = 1
    /\ rocks = MaxRocks - 2
    /\ item.entry \in { 1, 3 }
    /\ item.ench[SLAMROCK_MODIFIER_SLOTS[2]] = 0

(***************************************************************************)
(* Live application and removal against the slots written.                 *)
(***************************************************************************)
SlotsOf(log, head) ==
    LET sel == SelectSeq(log, LAMBDA e : e[1] = head)
    IN  [ i \in 1 .. Len(sel) |-> sel[i][2] ]

LiveCalls(log, how) ==
    LET sel == SelectSeq(log, LAMBDA e : e[1] = "ApplyEnchantment" /\ e[3] = how)
    IN  [ i \in 1 .. Len(sel) |-> sel[i][2] ]

\* C26: in an empowerment of an equipped target the live applications name
\* the slots that were written, marker slot first and modifier slots in
\* order, so that afterwards the effect of every slot the event wrote is
\* live; and every slot the clear empties had its live effect removed by a
\* call that precedes the emptying and the stat refresh.
C26_LiveFollowsWrittenSlots ==
    (ev.outcome = "empowered" /\ item.alive /\ IsEquipped(item)) =>
        /\ LiveCalls(ev.log, "apply") = SlotsOf(ev.log, "SetEnchantment")
        /\ \A i \in IndexesOf(ev.log, { "SetEnchantment" }) :
              live[ev.log[i][2]][item.ench[ev.log[i][2]]] = 1
        /\ \A i \in IndexesOf(ev.log, { "ClearEnchantment" }) :
              \E j \in 1 .. i - 1 :
                  ev.log[j] = << "ApplyEnchantment", ev.log[i][2], "remove" >>
        /\ \A j \in IndexesOf(ev.log, { "ApplyEnchantment" }) :
              ev.log[j][3] = "remove" =>
                  \A k \in IndexesOf(ev.log, { "ClearEnchantment", "UpdateDamagePhysical" }) :
                      j < k

(***************************************************************************)
(* The tier indexes once built.                                            *)
(***************************************************************************)
\* vec is non-decreasing in level and holds each item of the set once and
\* nothing else, each with its level
WellFormedIndex(vec, entries) ==
    /\ \A i \in 1 .. Len(vec) - 1 : vec[i][1] <= vec[i + 1][1]
    /\ Len(vec) = Cardinality(entries)
    /\ { vec[i][2] : i \in 1 .. Len(vec) } = entries
    /\ \A i \in 1 .. Len(vec) : vec[i][1] = catalog[vec[i][2]].ItemLevel

\* C27: once an index is built, under every key its sequence is
\* non-decreasing in item level and holds every gear item of the catalog
\* with that key exactly once and no other item; and no later call of
\* either selector changes a built index.
C27_IndexWellFormedAndImmutable ==
    [][ /\ statics'.byTypeInitialized =>
              \A k \in ItemTypes :
                  WellFormedIndex(statics'.byTypeMap[k],
                      { e \in DOMAIN catalog : IsGear(e) /\ ItemTypeKey(catalog[e]) = k })
        /\ statics'.byClassInitialized =>
              \A c \in ItemClasses :
                  WellFormedIndex(statics'.byClassMap[c],
                      { e \in DOMAIN catalog : IsGear(e) /\ catalog[e].Class = c })
        /\ statics.byTypeInitialized =>
              statics'.byTypeInitialized /\ statics'.byTypeMap = statics.byTypeMap
        /\ statics.byClassInitialized =>
              statics'.byClassInitialized /\ statics'.byClassMap = statics.byClassMap ]_vars

\* both indexes are built, the last call was a downgrade call made after
\* an upgrade call, and one key holds two items of one level and one of another
C27_Witness ==
    /\ statics.byTypeInitialized /\ statics.byClassInitialized
    /\ call.fn = "downgrade" /\ call.out # 0
    /\ \E k \in ItemTypes :
          /\ Len(statics.byTypeMap[k]) = 3
          /\ statics.byTypeMap[k][1][1] = statics.byTypeMap[k][2][1]
          /\ statics.byTypeMap[k][2][1] < statics.byTypeMap[k][3][1]

(***************************************************************************)
(* The sampler as a function of the row set and the draw.                  *)
(***************************************************************************)
Permutations(seq) ==
    { [ i \in 1 .. Len(seq) |-> seq[p[i]] ] :
        p \in { q \in [ 1 .. Len(seq) -> 1 .. Len(seq) ] :
                  \A i, j \in 1 .. Len(seq) : i # j => q[i] # q[j] } }

\* the group the draw names: the one whose keys before it, in ascending
\* order, weigh less than the draw and with it at least the draw
GroupAtDraw(pool, itemLevel, excludeGroups, roll) ==
    LET groups == CandidateGroups(pool, itemLevel, excludeGroups)
        before(k) == SumOver({ g \in groups : StrLess(g, k) }, pool, itemLevel)
    IN  { k \in groups :
            /\ before(k) < roll
            /\ roll <= before(k) + MaxWeightOfGroup(pool, itemLevel, k) }

\* C28: for fixed rows, tier, exclusions and draw in 1..totalWeight the
\* sampler succeeds and returns the first group in ascending key order
\* whose cumulative weight reaches the draw, the same one for every order
\* of the rows in the pool; every value in 1..totalWeight is a draw.
C28_SamplerDeterminedByDraw ==
    [][ pick'.out.fn = "group" =>
          LET pool  == pick.pool
              lvl   == pick.itemLevel
              ex    == pick.excludeGroups
              roll  == pick'.out.roll
              total == SumOver(CandidateGroups(pool, lvl, ex), pool, lvl)
          IN  /\ GroupRolls(pool, lvl, ex) = 1 .. total
              /\ total = 0 => ~ pick'.out.ok
              /\ total > 0 =>
                    /\ roll \in 1 .. total
                    /\ pick'.out.ok
                    /\ GroupAtDraw(pool, lvl, ex, roll) = { pick'.out.key }
                    /\ \A perm \in Permutations(pool) :
                          PickWeightedGroupFromWhitelist(perm, lvl, ex, roll)
                              = [ ok |-> TRUE, key |-> pick'.out.key ] ]_vars

\* two groups whose rows stand in the pool against the key order; draw 1
\* returned the group of the second row
C28_Witness ==
    /\ pick.out.fn = "group" /\ pick.out.ok /\ pick.out.roll = 1
    /\ Len(pick.pool) = 2
    /\ Cardinality(CandidateGroups(pick.pool, pick.itemLevel, pick.excludeGroups)) = 2
    /\ StrLess(GetEffectiveGroupKey(pick.pool[2]), GetEffectiveGroupKey(pick.pool[1]))
    /\ pick.out.key = GetEffectiveGroupKey(pick.pool[2])

(***************************************************************************)
(* Where the placed modifiers come from.                                   *)
(***************************************************************************)
OwnPool == IF GetItemPrototype(item.entry).Class = "WEAPON" THEN cache.weapon ELSE cache.armor

EligibleIds(pool, itemLevel) ==
    { pool[i].enchantId : i \in { j \in 1 .. Len(pool) :
                                    pool[j].weight > 0 /\ pool[j].minIlvl <= itemLevel } }

\* C29: every modifier an item-use placed on the target is the enchantment
\* id of a row of the pool of the target's type with weight > 0 and
\* minIlvl <= the target's item level, and nothing else is in the modifier
\* slots.
C29_PlacedModifiersFromEligibleRows ==
    ev.outcome = "empowered" =>
        LET ids == EligibleIds(OwnPool, GetItemPrototype(item.entry).ItemLevel)
        IN  /\ \A i \in 1 .. Len(ev.rolled) : ev.rolled[i] \in ids
            /\ \A i \in 1 .. SLAMROCK_MAX_MODIFIERS :
                  item.ench[SLAMROCK_MODIFIER_SLOTS[i]] \in ids \cup { 0 }

\* the pool holds an eligible row and, for the other id, only a row of
\* weight 0 or above the item's tier; the other type's pool has an
\* eligible row for that id
C29_Witness ==
    /\ ev.outcome = "empowered"
    /\ Len(OwnPool) = 2
    /\ OwnPool[1].enchantId # OwnPool[2].enchantId
    /\ GetEffectiveGroupKey(OwnPool[1]) = GetEffectiveGroupKey(OwnPool[2])
    /\ OwnPool[1].weight = 0 \/ OwnPool[1].minIlvl > GetItemPrototype(item.entry).ItemLevel
    /\ item.ench[SLAMROCK_MODIFIER_SLOTS[1]] = OwnPool[2].enchantId

(***************************************************************************)
(* Termination of the event.                                               *)
(***************************************************************************)
FinalOutcomes ==
    { "rejected", "upgraded", "downgraded", "whitelist_empty", "no_eligible",
      "roll_failed", "empowered" }

HandlerReturned == Frame.pc = "returned" /\ ev.outcome \in FinalOutcomes

\* the number of steps the handler can still take, at most
StepsLeft ==
    CASE Frame.pc = "validate" -> 9
      [] Frame.pc = "upgrade gate" -> 8
      [] Frame.pc = "downgrade gate" -> 7
      [] Frame.pc = "pool" -> 6
      [] Frame.pc = "loop" -> 2 + (Frame.modifierCount - Len(Frame.picks))
      [] Frame.pc = "after loop" -> 1
      [] Frame.pc = "returned" -> 0

\* the statement the handler is at can be executed
CanStep ==
    CASE Frame.pc = "upgrade gate" -> UpgradeStage(Here) # { }
      [] Frame.pc = "downgrade gate" -> DowngradeStage(Here) # { }
      [] Frame.pc = "pool" -> LoadStage(Here) # { }
      [] Frame.pc = "loop" ->
            RollOnce(PoolFor(Here), GetItemPrototype(item.entry).ItemLevel, noExclusions) # { }
      [] OTHER -> Frame.pc \in { "validate", "after loop" }

\* C30: an item-use event returns within the call: the while loop makes at
\* most modifierCount <= 3 passes and every pass appends one entry to
\* rolled or breaks; every step of the handler lowers the number of steps
\* left, which is never negative; the handler is never at a statement it
\* cannot execute, and where no step is left it has returned with the
\* outcome rejected, swapped (upgraded or downgraded), no eligible
\* enchantments (empty pool, no eligible group, or nothing rolled) or
\* empowered.
C30_HandlerTerminates ==
    /\ [](/\ Frame.modifierCount <= SLAMROCK_MAX_MODIFIERS
          /\ Frame.iterations <= Frame.modifierCount
          /\ Len(Frame.picks) <= Frame.iterations
          /\ StepsLeft \in 0 .. 9
          /\ StepsLeft = 0 <=> HandlerReturned
          /\ ~ HandlerReturned => CanStep /\ ev.outcome = "running")
    /\ [][ /\ StepsLeft' < StepsLeft
           /\ Frame'.iterations # Frame.iterations =>
                /\ Frame'.iterations = Frame.iterations + 1
                /\ \/ /\ Len(Frame'.picks) = Len(Frame.picks) + 1
                      /\ SubSeq(Frame'.picks, 1, Len(Frame.picks)) = Frame.picks
                   \/ Frame'.picks = Frame.picks /\ Frame'.pc = "after loop" ]_vars

C30_Witness ==
    /\ HandlerReturned
    /\ ev.outcome = "empowered"
    /\ Frame.modifierCount = SLAMROCK_MAX_MODIFIERS
    /\ Frame.iterations = SLAMROCK_MAX_MODIFIERS
    /\ Len(ev.rolled) = SLAMROCK_MAX_MODIFIERS
    /\ \E i \in DOMAIN ev.log : ev.log[i] = << "downgrade roll", "hit" >>

====
